---- MODULE Spec2Model ----
(***************************************************************************)
(* The data synchronisation pipeline of backend-iqxvn: DataSyncScript      *)
(* (scripts/syncData.ts), SimplizeService.fetchCompanyData and             *)
(* CompanyModel.upsert, as a state machine.  One action per event-loop     *)
(* handler: a handler runs from the resolution of the promise it awaited   *)
(* up to the next await of the same async call chain.                      *)
(***************************************************************************)
EXTENDS Integers, Sequences, FiniteSets, TLC

VARIABLES
  options,        \* SyncOptions: workers, maxRetries, batchSize (0 = not given)
  cfgMaxRetries,  \* config.simplize.maxRetries
  tickersToSync,  \* the filtered ticker list run() schedules
  pc,             \* where run() is suspended
  batchIndex,     \* run(): index of the batch being processed (0-based)
  chunkIndex,     \* syncWithWorkers: index of the chunk being processed (0-based)
  slots,          \* syncWithWorkers: the promises of the current chunk
  successCount,   \* syncWithWorkers: successCount
  failedCount,    \* syncWithWorkers: failedCount
  totalSuccess,   \* run(): totalSuccess
  totalFailed,    \* run(): totalFailed
  store,          \* tickers that have a row in table companies
  launched,       \* number of fetchWithRetry calls started so far in this run
  chunkLog,       \* sizes of the chunks started by the current syncWithWorkers call
  upsertsOk,      \* number of upsert calls of the run that have returned
  pauseLog,       \* the timers awaited between chunks and between batches, in order
  tickersFile,    \* tickers.json: missing, unparsable, not an array, or an array of texts
  allTickers,     \* run(): what loadTickers returned
  filteredTickers,  \* filterTickers: filteredTickers while the existence checks run
  existingTickers,  \* filterTickers: existingTickers
  queried,        \* the arguments of the findByTicker calls made so far
  dbConnected,    \* run(): dbConnected ("pending" until testConnection resolves)
  runError,       \* message of the error run() rethrows ("" while it has not thrown)
  companies,      \* table companies, row by row
  now,            \* the clock of the database server
  idSeq,          \* the sequence behind companies.id (SERIAL)
  calls,          \* the CompanyModel.upsert calls made by concurrent callers
  commits,        \* the calls whose statement has committed, in commit order
  summaries,      \* the raw summary behind each upsert call that follows a fetch
  requests,       \* the HTTP requests the company controller has received
  read,           \* the findByTicker or findAll call in progress, or the last one made
  asked,          \* the identifier given to fetchWithRetry behind each upsert call after a fetch
  loopIndex,      \* run(), syncWithWorkers: i of the splitting loop that is running (0: none)
  pool,           \* the connection pool: the number of clients checked out
  upserts,        \* the upsert calls waiting for a client and holding one, counted
  testConn,       \* the testConnection call in progress, or the last one made
  initDb,         \* the initializeDatabase call in progress, or the last one made
  schema          \* the objects of the store's schema that are committed

\* run() before the scheduler starts
preludeVars == <<tickersFile, allTickers, filteredTickers, existingTickers, queried,
                 dbConnected, runError>>

\* table companies and the upsert calls working on it
tableVars == <<companies, now, idSeq, calls, commits, summaries>>

\* the REST API and the read methods of CompanyModel behind it
apiVars == <<requests, read>>

\* the pool and the calls that check a client out of it
dbVars == <<pool, upserts, testConn, initDb, schema>>

\* null where a row is expected
NoRow == [id |-> 0]

\* no findByTicker or findAll call has been made
NoRead == [method |-> "none", args |-> << >>, pc |-> "idle", queries |-> << >>, total |-> 0,
           result |-> NoRow, thrown |-> ""]

\* the schema initializeDatabase creates: the table, its indexes, the function and the trigger
SchemaObjects == {"companies", "indexes", "update_updated_at_column",
                  "update_companies_updated_at"}

\* no testConnection or initializeDatabase call has been made
NoCall == [pc |-> "idle", n |-> 0, issued |-> << >>, caught |-> "", thrown |-> "",
           result |-> "none", client |-> "none", releases |-> 0, txn |-> {}, fresh |-> FALSE]

\* nobody uses the pool; the store is initialized
DbIdle ==
  /\ pool = 0
  /\ upserts = [connect |-> 0, query |-> 0]
  /\ testConn = NoCall
  /\ initDb = NoCall
  /\ schema = SchemaObjects

vars == <<options, cfgMaxRetries, tickersToSync, pc, batchIndex, chunkIndex, slots,
          successCount, failedCount, totalSuccess, totalFailed, store, launched,
          chunkLog, upsertsOk, pauseLog, preludeVars, tableVars, apiVars, dbVars,
          loopIndex, asked>>

---------------------------------------------------------------------------
(* Bounds of the model *)

MaxTickers == 4
MaxWorkers == 2
MaxBatchSize == 2
MaxAttempts == 5
MaxCfgRetries == 3

(* Constants of the program *)

DefaultWorkers == 128
DefaultMaxRetries == 3
BackoffBase == 1000
BackoffCap == 5000
RequestDelay == 1000
ChunkPause == 1000
BatchPause == 5000

\* the tickers of tickers.json
TickerNames == <<"VIC", "VCB", "HPG", "FPT", "VNM", "MSN", "MWG", "TCB", "BID", "CTG">>

\* retry settings of the runs with several tickers
SmallAttempts == {1, 2}
SmallCfgRetries == {1}

NoDataMsg == "No data returned"
RequestErrorMsg == "request failed"
StoreErrorMsg == "store error"

---------------------------------------------------------------------------
(* Pure helpers *)

Min(a, b) == IF a < b THEN a ELSE b

RECURSIVE Pow2(_)
Pow2(n) == IF n <= 0 THEN 1 ELSE 2 * Pow2(n - 1)

\* Array.prototype.slice(from, to) on a sequence, 0-based, end exclusive, clamped
Slice(seq, from, to) ==
  LET hi == Min(to, Len(seq))
  IN  IF from >= hi THEN << >> ELSE [i \in 1..(hi - from) |-> seq[from + i]]

\* for (let i = 0; i < list.length; i += size) parts.push(list.slice(i, i + size))
RECURSIVE SplitFrom(_, _, _)
SplitFrom(list, size, i) ==
  IF i >= Len(list) THEN << >>
  ELSE <<Slice(list, i, i + size)>> \o SplitFrom(list, size, i + size)

---------------------------------------------------------------------------
(* Text: a text is the sequence of its characters; tickers are kept as strings *)

LowerCase == <<"a", "b", "c", "d", "e", "f", "g", "h", "i", "j", "k", "l", "m",
               "n", "o", "p", "q", "r", "s", "t", "u", "v", "w", "x", "y", "z">>

UpperCase == <<"A", "B", "C", "D", "E", "F", "G", "H", "I", "J", "K", "L", "M",
               "N", "O", "P", "Q", "R", "S", "T", "U", "V", "W", "X", "Y", "Z">>

WhiteSpace == {" ", "\t", "\n"}

\* String.prototype.toUpperCase
ToUpperCase(text) ==
  [i \in 1..Len(text) |->
     IF \E j \in 1..Len(LowerCase) : LowerCase[j] = text[i]
     THEN UpperCase[CHOOSE j \in 1..Len(LowerCase) : LowerCase[j] = text[i]]
     ELSE text[i]]

RECURSIVE TrimStart(_)
TrimStart(text) ==
  IF text # << >> /\ Head(text) \in WhiteSpace THEN TrimStart(Tail(text)) ELSE text

RECURSIVE TrimEnd(_)
TrimEnd(text) ==
  IF text # << >> /\ text[Len(text)] \in WhiteSpace
  THEN TrimEnd(SubSeq(text, 1, Len(text) - 1))
  ELSE text

\* String.prototype.trim
Trim(text) == TrimEnd(TrimStart(text))

\* the string a text denotes
RECURSIVE Str(_)
Str(text) == IF text = << >> THEN "" ELSE Head(text) \o Str(Tail(text))

---------------------------------------------------------------------------
(* Options and the partition of the work *)

\* variant: the workers option is ignored
ConcurrencyDefault == DefaultWorkers

\* const concurrency = options.workers || 128
Concurrency == IF options.workers = 0 THEN DefaultWorkers ELSE options.workers

\* variant: maxRetries is used as given
MaxRetriesAsGiven == options.maxRetries

\* const maxRetries = options.maxRetries || 3
MaxRetries == IF options.maxRetries = 0 THEN DefaultMaxRetries ELSE options.maxRetries

\* const batchSize = options.batchSize || tickersToSync.length
BatchSize == IF options.batchSize = 0 THEN Len(tickersToSync) ELSE options.batchSize

\* variant: every slice is one element too long (slice(i, i + size + 1))
ChunksOverlap(list, size) ==
  [j \in 1..Len(SplitFrom(list, size, 0)) |-> Slice(list, (j - 1) * size, j * size + 1)]

\* the chunks of syncWithWorkers
ChunksOf(list, size) == SplitFrom(list, size, 0)

Batches == SplitFrom(tickersToSync, BatchSize, 0)

Batch == Batches[batchIndex + 1]

Chunks == ChunksOf(Batch, Concurrency)

\* variant: the delay without its ceiling
BackoffDelayUncapped(attempt) == BackoffBase * Pow2(attempt - 1)

\* Math.min(1000 * Math.pow(2, attempt - 1), 5000)
BackoffDelay(attempt) == Min(BackoffBase * Pow2(attempt - 1), BackoffCap)

---------------------------------------------------------------------------
(* One promise of a chunk: the async callback of chunk.map, with the       *)
(* fetchWithRetry, fetchCompanyData and upsert calls it awaits.            *)
(*   pc: "request"  awaiting axiosInstance.get       (fetchCompanyData)    *)
(*       "delay"    awaiting this.delay(...)         (fetchCompanyData)    *)
(*       "backoff"  awaiting setTimeout              (fetchWithRetry)      *)
(*       "connect"  awaiting pool.connect            (upsert)              *)
(*       "query"    awaiting client.query            (upsert)              *)
(*       "settled"  the promise is resolved with value                     *)
(*       "rejected" the promise is rejected                                *)
(* reqs (requests issued), waits (timers awaited), firstKind and lastKind   *)
(* (first and latest response: "ok", "empty" or "error") and allEmpty      *)
(* (every response so far was empty) record what the fetchWithRetry call   *)
(* has done and seen so far.                                               *)

NoResult == [kind |-> "none"]
Thrown == [kind |-> "thrown"]
NoValue == [kind |-> "pending"]
NullValue == [kind |-> "null"]
NoData == ""

WorkerResult(success, data, error, attempts) ==
  [kind |-> "result", success |-> success, data |-> data, error |-> error,
   attempts |-> attempts]

ChunkValue(success, error) == [kind |-> "value", success |-> success, error |-> error]

\* variant: the callback has no catch, its promise rejects
UpsertThrewUncaught(slot, message) == [slot EXCEPT !.pc = "rejected"]

\* variant: the callback reports success whether or not upsert threw
UpsertThrewCountedOk(slot, message) ==
  [slot EXCEPT !.pc = "settled", !.value = ChunkValue(TRUE, "")]

\* catch (error) { ...; return { success: false, ticker, error: error.message } }
UpsertThrew(slot, message) ==
  [slot EXCEPT !.pc = "settled", !.value = ChunkValue(FALSE, message)]

\* variant: a fetched record is kept until the chunk ends instead of being upserted
FetchReturnDeferred(slot, result) ==
  IF result.success /\ result.data # NoData
  THEN [slot EXCEPT !.pc = "held", !.result = result]
  ELSE [slot EXCEPT !.pc = "settled", !.result = result,
                    !.value = ChunkValue(FALSE, result.error)]

\* const result = await this.fetchWithRetry(...); if (result.success && result.data) ...
FetchReturn(slot, result) ==
  IF result.success /\ result.data # NoData
  THEN [slot EXCEPT !.pc = "connect", !.result = result]
  ELSE [slot EXCEPT !.pc = "settled", !.result = result,
                    !.value = ChunkValue(FALSE, result.error)]

\* variant: success reports maxRetries as its attempt count
FetchSuccessAllAttempts(slot) ==
  FetchReturn(slot, WorkerResult(TRUE, slot.ticker, "", MaxRetries))

\* if (data) return { ticker, success: true, data, attempts: attempt }
FetchSuccess(slot) ==
  FetchReturn(slot, WorkerResult(TRUE, slot.ticker, "", slot.attempt))

\* variant: exhausted attempts throw (the callback's catch then settles the promise)
FetchExhaustedThrows(slot) ==
  [slot EXCEPT !.pc = "settled", !.result = Thrown,
               !.value = ChunkValue(FALSE, slot.lastError)]

\* after the loop: return { ticker, success: false, error: lastError, attempts: maxRetries }
FetchExhausted(slot) ==
  FetchReturn(slot, WorkerResult(FALSE, NoData, slot.lastError, MaxRetries))

\* the timer fetchWithRetry awaits before the next attempt
BackoffWait(slot) ==
  [slot EXCEPT !.pc = "backoff",
               !.waits = Append(@, [timer |-> "backoff", ms |-> BackoffDelay(slot.attempt)])]

\* else-branch of if (data): lastError = `No data returned ...`; backoff if attempts remain
OnNoData(slot) ==
  LET s1 == [slot EXCEPT !.lastError = NoDataMsg]
  IN  IF slot.attempt < MaxRetries THEN BackoffWait(s1) ELSE FetchExhausted(s1)

\* catch of fetchWithRetry: lastError = error.message || 'Unknown error'; backoff if attempts remain
OnThrow(slot, message) ==
  LET s1 == [slot EXCEPT !.lastError = IF message = "" THEN "Unknown error" ELSE message]
  IN  IF slot.attempt < MaxRetries THEN BackoffWait(s1) ELSE FetchExhausted(s1)

\* fetchWithRetry continues with what fetchCompanyData gave: data, null or an exception
AfterFetchCompanyData(slot, out) ==
  CASE out.kind = "data"  -> FetchSuccess(slot)
    [] out.kind = "null"  -> OnNoData(slot)
    [] out.kind = "throw" -> OnThrow(slot, out.message)

\* variant: fetchCompanyData has no catch, the request error reaches fetchWithRetry
FetchCompanyDataThrows(slot, message) ==
  AfterFetchCompanyData(slot, [kind |-> "throw", message |-> message])

\* catch of fetchCompanyData: return null on the last attempt, else await delay(requestDelay * attempt)
FetchCompanyDataCatch(slot, message) ==
  IF slot.inner = cfgMaxRetries
  THEN AfterFetchCompanyData(slot, [kind |-> "null"])
  ELSE [slot EXCEPT !.pc = "delay",
                    !.waits = Append(@, [timer |-> "delay", ms |-> RequestDelay * slot.inner])]

\* fetchCompanyData, loop iteration `inner`: axiosInstance.get(url) is issued and awaited
IssueRequest(slot, inner) ==
  IF inner <= cfgMaxRetries
  THEN [slot EXCEPT !.pc = "request", !.inner = inner, !.reqs = @ + 1]
  ELSE AfterFetchCompanyData([slot EXCEPT !.inner = inner], [kind |-> "null"])

\* fetchWithRetry, loop iteration `attempt`: calls fetchCompanyData
StartAttempt(slot, attempt) ==
  IF attempt <= MaxRetries
  THEN IssueRequest([slot EXCEPT !.attempt = attempt], 1)
  ELSE FetchExhausted([slot EXCEPT !.attempt = attempt])

\* the async callback of chunk.map up to its first await
NewSlot(ticker, index) ==
  LET fresh == [ticker |-> ticker, index |-> index, pc |-> "start", attempt |-> 0,
                inner |-> 0, lastError |-> "", result |-> NoResult, value |-> NoValue,
                reqs |-> 0, waits |-> << >>, firstKind |-> "none", lastKind |-> "none",
                allEmpty |-> TRUE]
  IN  IF ticker = "" THEN [fresh EXCEPT !.pc = "settled", !.value = NullValue]
      ELSE StartAttempt(fresh, 1)

---------------------------------------------------------------------------
(* The run *)

\* the first n tickers of tickers.json (uppercase, non-empty; TickerNames repeated if longer)
Universe(n) == [i \in 1..n |-> TickerNames[((i - 1) % Len(TickerNames)) + 1]]

\* the texts of tickers.json
TickerTexts ==
  << <<"V", "I", "C">>, <<"V", "C", "B">>, <<"H", "P", "G">>, <<"F", "P", "T">>,
     <<"V", "N", "M">>, <<"M", "S", "N">>, <<"M", "W", "G">>, <<"T", "C", "B">>,
     <<"B", "I", "D">>, <<"C", "T", "G">> >>

\* a tickers.json written by hand: lower case, padding, a blank entry
MixedTexts ==
  << <<"v", "i", "c">>, <<" ", "V", "C", "B">>, <<" ", " ">>, <<"H", "P", "G", " ">>,
     <<"F", "p", "t">>, <<"v", "n", "m">>, <<"m", "s", "n", "\n">> >>

\* a tickers.json with a ticker the source has no data for
BadTickerTexts == << <<"V", "I", "C">>, <<"B", "A", "D", "T", "I", "C", "K", "E", "R">> >>

\* values of --tickers
SpecificChoices ==
  { << >>,
    << <<" ", "h", "p", "g">>, <<"V", "i", "c">> >>,
    << <<"X", "X", "X">>, <<"v", "n", "m">> >> }

\* an optional number of SyncOptions that is not given
Undefined == -1

\* tickers.json holding the first n entries of `texts`
TickersJson(texts, n) ==
  [kind |-> "array", items |-> [i \in 1..n |-> texts[((i - 1) % Len(texts)) + 1]]]

\* tickers.json is absent, is not JSON, or is JSON but not an array
BrokenFiles == {[kind |-> k, items |-> << >>] : k \in {"missing", "invalid", "notArray"}}

\* ticker => ticker.toUpperCase().trim()
NormalizeTicker(text) == Str(Trim(ToUpperCase(text)))

\* variant: a file that is not an array counts as an empty list
LoadTickersThrowsIfMissing(file) == file.kind \in {"missing", "invalid"}

\* loadTickers throws: existsSync is false, JSON.parse throws, or Array.isArray is false
LoadTickersThrows(file) == file.kind # "array"

LoadTickersMessage(file) ==
  CASE file.kind = "missing"  -> "File tickers.json does not exist"
    [] file.kind = "notArray" -> "File tickers.json must contain an array"
    [] OTHER                  -> "Unexpected token"

\* return tickers.map(ticker => ticker.toUpperCase().trim()).filter(Boolean)
LoadTickers(file) ==
  SelectSeq([i \in 1..Len(file.items) |-> NormalizeTicker(file.items[i])],
            LAMBDA t : t # "")

\* options.startIndex || 0
StartOf(tickers) == IF options.startIndex \in {Undefined, 0} THEN 0 ELSE options.startIndex

\* options.endIndex || tickers.length
EndOf(tickers) ==
  IF options.endIndex \in {Undefined, 0} THEN Len(tickers) ELSE options.endIndex

\* if (startIndex !== undefined || endIndex !== undefined) slice(start, end)
ByRange(tickers) ==
  IF options.startIndex # Undefined \/ options.endIndex # Undefined
  THEN Slice(tickers, StartOf(tickers), EndOf(tickers))
  ELSE tickers

\* Array.prototype.includes
Includes(list, x) == \E j \in 1..Len(list) : list[j] = x

\* options.specificTickers.map(t => t.toUpperCase().trim())
SpecificTickers ==
  [j \in 1..Len(options.specificTickers) |-> NormalizeTicker(options.specificTickers[j])]

\* if (specificTickers && specificTickers.length > 0) filter(t => specificTickers.includes(t))
BySubset(tickers) ==
  IF Len(options.specificTickers) > 0
  THEN SelectSeq(tickers, LAMBDA t : Includes(SpecificTickers, t))
  ELSE tickers

\* variant: the subset is taken first, the range then counts positions in the subset
CandidatesSubsetFirst(tickers) == ByRange(BySubset(tickers))

\* filterTickers before the existence checks: the range, then the subset
Candidates(tickers) == BySubset(ByRange(tickers))

\* variant: the tickers found in the store are the ones kept
OnlyExisting(tickers, existing) == SelectSeq(tickers, LAMBDA t : Includes(existing, t))

\* filteredTickers.filter(ticker => !existingTickers.includes(ticker))
WithoutExisting(tickers, existing) == SelectSeq(tickers, LAMBDA t : ~Includes(existing, t))

\* the texts the model gives a spelling to
KnownTexts ==
  LET raw == {TickerTexts[i] : i \in 1..Len(TickerTexts)}
               \cup {MixedTexts[i] : i \in 1..Len(MixedTexts)}
               \cup {BadTickerTexts[i] : i \in 1..Len(BadTickerTexts)}
               \cup UNION {{l[i] : i \in 1..Len(l)} : l \in SpecificChoices}
  IN  raw \cup {Trim(ToUpperCase(t)) : t \in raw}

\* ticker.toUpperCase() on a string
ToUpperCaseString(s) == Str(ToUpperCase(CHOOSE t \in KnownTexts : Str(t) = s))

\* findByTicker: SELECT * FROM companies WHERE ticker = $1 with ticker.toUpperCase()
FindByTicker(ticker) == ToUpperCaseString(ticker) \in store

SyncOptions(workers, maxRetries, batchSize, startIndex, endIndex, specific, skip) ==
  [workers |-> workers, maxRetries |-> maxRetries, batchSize |-> batchSize,
   startIndex |-> startIndex, endIndex |-> endIndex, specificTickers |-> specific,
   skipExisting |-> skip]

\* no upsert call outside the run
TableIdle ==
  /\ companies = {}
  /\ now = 0
  /\ idSeq = 1
  /\ calls = << >>
  /\ commits = << >>
  /\ summaries = << >>

\* run(opts) is called: it awaits testConnection()
StartedWith(file, opts, cfg) ==
  /\ options = opts
  /\ cfgMaxRetries = cfg
  /\ tickersFile = file
  /\ allTickers = << >>
  /\ filteredTickers = << >>
  /\ existingTickers = << >>
  /\ queried = << >>
  /\ dbConnected = "pending"
  /\ runError = ""
  /\ tickersToSync = << >>
  /\ pc = "testConnection"
  /\ batchIndex = 0
  /\ chunkIndex = 0
  /\ slots = << >>
  /\ successCount = 0
  /\ failedCount = 0
  /\ totalSuccess = 0
  /\ totalFailed = 0
  /\ store \in {{}, {TickerNames[1]}}
  /\ launched = 0
  /\ chunkLog = << >>
  /\ upsertsOk = 0
  /\ pauseLog = << >>
  /\ requests = << >>
  /\ read = NoRead
  /\ asked = << >>
  /\ loopIndex = 0
  /\ DbIdle
  /\ TableIdle

Started(n, workers, maxRetries, batchSize, cfg) ==
  StartedWith(TickersJson(TickerTexts, n),
              SyncOptions(workers, maxRetries, batchSize, Undefined, Undefined, << >>, FALSE),
              cfg)

\* runs of a few tickers under every small choice of workers and batch size; when workers
\* is not given (128) the batch size or the list keeps the chunk within MaxWorkers
InitSmall ==
  \E n \in 0..MaxTickers, w \in 0..MaxWorkers, b \in 0..MaxBatchSize, k \in SmallAttempts :
    /\ (w = 0 => (n <= MaxWorkers \/ b \in 1..MaxWorkers))
    /\ \E cfg \in SmallCfgRetries : Started(n, w, k, b, cfg)

\* the run of the specification's section 8: 10 identifiers with concurrency 3
InitExample == Started(10, 3, 1, 0, 1)

\* one ticker under every retry setting (--max-retries 0 or not given: 3 attempts;
\* --max-retries -1: fetchWithRetry's loop is not entered)
InitRetry ==
  \E k \in -1..MaxAttempts, cfg \in 1..MaxCfgRetries : Started(1, 1, k, 0, cfg)

\* a hand-written tickers.json under every choice of --start, --end, --tickers and
\* --skip-existing, one worker
InitFilter ==
  \E m \in 0..MaxTickers, specific \in SpecificChoices, skip \in BOOLEAN :
    \E startIndex, endIndex \in {Undefined} \cup 0..m :
      StartedWith(TickersJson(MixedTexts, m),
                  SyncOptions(1, 1, 0, startIndex, endIndex, specific, skip), 1)

\* --start 2 --end 5 over 10 tickers
InitRange ==
  StartedWith(TickersJson(TickerTexts, 10),
              SyncOptions(3, 1, 0, 2, 5, << >>, FALSE), 1)

\* the run of the specification's section 8 with a ticker the source has no data for:
\* tickers.json is ["VIC", "BADTICKER"], --max-retries 2
InitBadTicker ==
  StartedWith(TickersJson(BadTickerTexts, 2),
              SyncOptions(0, 2, 0, Undefined, Undefined, << >>, FALSE), 1)

\* tickers.json is missing or is not a JSON array
InitBroken ==
  \E file \in BrokenFiles :
    StartedWith(file, SyncOptions(0, 0, 0, Undefined, Undefined, << >>, FALSE), 1)

Init ==
  \/ InitSmall
  \/ InitExample
  \/ InitRetry
  \/ InitFilter
  \/ InitRange
  \/ InitBadTicker
  \/ InitBroken

---------------------------------------------------------------------------
(* run() up to the scheduler: testConnection, initializeDatabase, healthCheck, *)
(* loadTickers, filterTickers                                               *)

ConnectErrorMsg == "Cannot connect to database"

PreludeFrame ==
  UNCHANGED <<options, cfgMaxRetries, tickersFile, batchIndex, chunkIndex, slots,
              successCount, failedCount, totalSuccess, totalFailed, store, launched,
              chunkLog, upsertsOk, pauseLog, tableVars, apiVars, dbVars,
              loopIndex, asked>>

\* run() throws: the catch of run() logs and rethrows
RunThrows(message) ==
  /\ pc' = "threw"
  /\ runError' = message

\* variant: the result of testConnection is not looked at
DbCheckSkipped(connected) == FALSE

\* if (!dbConnected) throw new Error(...)
DbNotConnected(connected) == connected # "true"

\* run() continues with the result of testConnection()
AfterTestConnection(connected) ==
  /\ pc = "testConnection"
  /\ dbConnected' = connected
  /\ IF DbNotConnected(connected)
     THEN RunThrows(ConnectErrorMsg)
     ELSE pc' = "initializeDatabase" /\ runError' = runError
  /\ UNCHANGED <<tickersToSync, allTickers, filteredTickers, existingTickers, queried>>
  /\ PreludeFrame

\* testConnection resolves true: pool.connect and SELECT NOW() went through
TestConnectionOk == AfterTestConnection("true")

\* testConnection resolves false: it caught the error of pool.connect or of the query
TestConnectionFailed == AfterTestConnection("false")

\* initializeDatabase resolves: run() awaits simplizeService.healthCheck()
InitializeDatabaseOk ==
  /\ pc = "initializeDatabase"
  /\ pc' = "healthCheck"
  /\ UNCHANGED <<tickersToSync, allTickers, filteredTickers, existingTickers, queried,
                 dbConnected, runError>>
  /\ PreludeFrame

\* initializeDatabase rejects (pool.connect or a statement failed)
InitializeDatabaseThrew ==
  /\ pc = "initializeDatabase"
  /\ RunThrows(StoreErrorMsg)
  /\ UNCHANGED <<tickersToSync, allTickers, filteredTickers, existingTickers, queried,
                 dbConnected>>
  /\ PreludeFrame

\* filterTickers, the loop over filteredTickers: the next findByTicker is awaited, or
\* the loop is over and filterTickers returns to run()
FilterLoop(candidates, existing) ==
  IF options.skipExisting /\ Len(queried) < Len(candidates)
  THEN /\ pc' = "findByTicker"
       /\ queried' = Append(queried, candidates[Len(queried) + 1])
       /\ filteredTickers' = candidates
       /\ existingTickers' = existing
       /\ UNCHANGED tickersToSync
  ELSE /\ pc' = "filtered"
       /\ tickersToSync' = IF options.skipExisting
                           THEN WithoutExisting(candidates, existing)
                           ELSE candidates
       /\ filteredTickers' = candidates
       /\ existingTickers' = existing
       /\ UNCHANGED queried

\* healthCheck resolves (a false result is only logged): loadTickers runs, then
\* filterTickers up to its first await
HealthCheckDone ==
  /\ pc = "healthCheck"
  /\ IF LoadTickersThrows(tickersFile)
     THEN /\ RunThrows(LoadTickersMessage(tickersFile))
          /\ UNCHANGED <<tickersToSync, allTickers, filteredTickers, existingTickers,
                         queried>>
     ELSE /\ allTickers' = LoadTickers(tickersFile)
          /\ FilterLoop(Candidates(LoadTickers(tickersFile)), << >>)
          /\ UNCHANGED runError
  /\ UNCHANGED dbConnected
  /\ PreludeFrame

\* findByTicker resolves with a row or with null
FindByTickerReturned ==
  /\ pc = "findByTicker"
  /\ LET ticker == queried[Len(queried)]
     IN  FilterLoop(filteredTickers,
                    IF FindByTicker(ticker)
                    THEN Append(existingTickers, ticker)
                    ELSE existingTickers)
  /\ UNCHANGED <<allTickers, dbConnected, runError>>
  /\ PreludeFrame

\* findByTicker rejects (pool.query failed): filterTickers and run() throw
FindByTickerThrew ==
  /\ pc = "findByTicker"
  /\ RunThrows(StoreErrorMsg)
  /\ UNCHANGED <<tickersToSync, allTickers, filteredTickers, existingTickers, queried,
                 dbConnected>>
  /\ PreludeFrame

---------------------------------------------------------------------------
(* The scheduler *)

\* syncWithWorkers starts chunk `ci` of the current batch: chunk.map(async ...) runs every
\* callback up to its first await, then Promise.all(promises) is awaited
LaunchChunk(bi, ci) ==
  LET batch  == Batches[bi + 1]
      chunks == ChunksOf(batch, Concurrency)
      chunk  == chunks[ci + 1]
  IN  /\ slots' = [i \in 1..Len(chunk) |-> NewSlot(chunk[i], ci * Concurrency + i)]
      /\ launched' = launched + Len(chunk)
      /\ chunkLog' = IF ci = 0 THEN <<Len(chunk)>> ELSE Append(chunkLog, Len(chunk))
      /\ chunkIndex' = ci
      /\ batchIndex' = bi
      /\ pc' = "join"

\* run() calls syncWithWorkers(batch, options): counters reset, first chunk started
\* (a batch with no chunk returns {0, 0} at once; run() then goes on)
EnterBatch(bi) ==
  /\ successCount' = 0
  /\ failedCount' = 0
  /\ LaunchChunk(bi, 0)

\* run() after filterTickers: nothing to do, or the batches are formed and the first starts
RunStart ==
  /\ pc = "filtered"
  /\ Len(tickersToSync) = 0 \/ (BatchSize > 0 /\ Concurrency > 0)
  /\ IF Len(tickersToSync) = 0
     THEN /\ pc' = "done"
          /\ UNCHANGED <<batchIndex, chunkIndex, slots, successCount, failedCount,
                         launched, chunkLog>>
     ELSE EnterBatch(0)
  /\ totalSuccess' = 0
  /\ totalFailed' = 0
  /\ UNCHANGED <<options, cfgMaxRetries, tickersToSync, store, upsertsOk, pauseLog,
                 preludeVars, tableVars, apiVars, dbVars,
                 loopIndex, asked>>

\* variant: the join waits for the first promise only (Promise.race)
AnySettled(ss) == ss = << >> \/ \E i \in 1..Len(ss) : ss[i].pc = "settled"

\* variant: only the first promise of the chunk is awaited (await promises[0])
FirstSettled(ss) == ss = << >> \/ ss[1].pc = "settled"

\* Promise.all(promises) resolves when every promise is resolved
AllSettled(ss) == \A i \in 1..Len(ss) : ss[i].pc = "settled"

AnyRejected(ss) == \E i \in 1..Len(ss) : ss[i].pc = "rejected"

\* results.forEach(result => { if (result) { if (result.success) successCount++ else failedCount++ } })
Tally(ss, success) ==
  Cardinality({i \in 1..Len(ss) : ss[i].value.kind = "value" /\ ss[i].value.success = success})

\* variant: the total is overwritten by the count of the latest batch
AddBatchLatest(total, count) == count

\* totalSuccess += result.success; totalFailed += result.failed
AddBatch(total, count) == total + count

\* a timer awaited between two chunks or two batches
Pause(timer, ms) == [timer |-> timer, ms |-> ms, batch |-> batchIndex]

\* variant: syncWithWorkers pauses after every chunk, the last one too
ChunkPauseAlways(ci, n) == TRUE

\* if (chunkIndex < chunks.length - 1) await new Promise(resolve => setTimeout(resolve, 1000))
ChunkPauseDue(ci, n) == ci < n - 1

\* variant: run() pauses after every batch, the last one too
BatchPauseAlways(bi, n) == TRUE

\* if (batchIndex < batches.length - 1) await new Promise(resolve => setTimeout(resolve, 5000))
BatchPauseDue(bi, n) == bi < n - 1

\* Promise.all(promises) settles: the chunk is tallied; then the pause before the next
\* chunk, or syncWithWorkers returns to run(), which adds the batch's counts and pauses
\* before the next batch or finishes.  A rejected promise makes syncWithWorkers, and
\* with it run(), throw.
JoinChunk ==
  /\ pc = "join"
  /\ AnyRejected(slots) \/ AllSettled(slots)
  /\ IF AnyRejected(slots)
     THEN /\ pc' = "threw"
          /\ UNCHANGED <<successCount, failedCount, totalSuccess, totalFailed, pauseLog>>
     ELSE LET sc == successCount + Tally(slots, TRUE)
              fc == failedCount + Tally(slots, FALSE)
          IN  /\ successCount' = sc
              /\ failedCount' = fc
              /\ IF ChunkPauseDue(chunkIndex, Len(Chunks))
                 THEN /\ pc' = "chunkPause"
                      /\ pauseLog' = Append(pauseLog, Pause("chunk", ChunkPause))
                      /\ UNCHANGED <<totalSuccess, totalFailed>>
                 ELSE /\ totalSuccess' = AddBatch(totalSuccess, sc)
                      /\ totalFailed' = AddBatch(totalFailed, fc)
                      /\ IF BatchPauseDue(batchIndex, Len(Batches))
                         THEN /\ pc' = "batchPause"
                              /\ pauseLog' = Append(pauseLog, Pause("batch", BatchPause))
                         ELSE /\ pc' = "done"
                              /\ UNCHANGED pauseLog
  /\ slots' = << >>
  /\ UNCHANGED <<options, cfgMaxRetries, tickersToSync, batchIndex, chunkIndex, store,
                 launched, chunkLog, upsertsOk, preludeVars, tableVars, apiVars, dbVars,
                 loopIndex, asked>>

\* the 1000 ms timer between chunks fires: the next chunk starts
ChunkPauseElapsed ==
  /\ pc = "chunkPause"
  /\ LaunchChunk(batchIndex, chunkIndex + 1)
  /\ UNCHANGED <<options, cfgMaxRetries, tickersToSync, successCount, failedCount,
                 totalSuccess, totalFailed, store, upsertsOk, pauseLog, preludeVars,
                 tableVars, apiVars, dbVars,
                 loopIndex, asked>>

\* the 5000 ms timer between batches fires: syncWithWorkers is called for the next batch
BatchPauseElapsed ==
  /\ pc = "batchPause"
  /\ EnterBatch(batchIndex + 1)
  /\ UNCHANGED <<options, cfgMaxRetries, tickersToSync, totalSuccess, totalFailed, store,
                 upsertsOk, pauseLog, preludeVars, tableVars, apiVars, dbVars,
                 loopIndex, asked>>

---------------------------------------------------------------------------
(* Handlers of one promise of the current chunk *)

SlotVarsUnchanged ==
  UNCHANGED <<options, cfgMaxRetries, tickersToSync, pc, batchIndex, chunkIndex,
              successCount, failedCount, totalSuccess, totalFailed, launched, chunkLog,
              pauseLog, preludeVars, tableVars, apiVars, dbVars,
              loopIndex, asked>>

\* the response of the awaited request is observed
Seen(slot, kind) ==
  [slot EXCEPT !.firstKind = IF @ = "none" THEN kind ELSE @,
               !.lastKind = kind,
               !.allEmpty = @ /\ kind = "empty"]

\* axiosInstance.get resolves with pageProps.summary present: the record is transformed,
\* fetchCompanyData returns it, fetchWithRetry returns success, upsert is called
ResponseOk(s) ==
  /\ slots[s].pc = "request"
  /\ slots' = [slots EXCEPT ![s] = AfterFetchCompanyData(Seen(@, "ok"), [kind |-> "data"])]
  /\ UNCHANGED <<store, upsertsOk>>
  /\ SlotVarsUnchanged

\* axiosInstance.get resolves without pageProps.summary: fetchCompanyData returns null
ResponseEmpty(s) ==
  /\ slots[s].pc = "request"
  /\ slots' = [slots EXCEPT ![s] = AfterFetchCompanyData(Seen(@, "empty"), [kind |-> "null"])]
  /\ UNCHANGED <<store, upsertsOk>>
  /\ SlotVarsUnchanged

\* axiosInstance.get rejects (network error, non-2xx status, 30 s timeout)
RequestError(s) ==
  /\ slots[s].pc = "request"
  /\ slots' = [slots EXCEPT ![s] = FetchCompanyDataCatch(Seen(@, "error"), RequestErrorMsg)]
  /\ UNCHANGED <<store, upsertsOk>>
  /\ SlotVarsUnchanged

\* this.delay(requestDelay * attempt) resolves: next iteration of fetchCompanyData's loop
DelayElapsed(s) ==
  /\ slots[s].pc = "delay"
  /\ slots' = [slots EXCEPT ![s] = IssueRequest(@, @.inner + 1)]
  /\ UNCHANGED <<store, upsertsOk>>
  /\ SlotVarsUnchanged

\* the backoff timer fires: next iteration of fetchWithRetry's loop
BackoffElapsed(s) ==
  /\ slots[s].pc = "backoff"
  /\ slots' = [slots EXCEPT ![s] = StartAttempt(@, @.attempt + 1)]
  /\ UNCHANGED <<store, upsertsOk>>
  /\ SlotVarsUnchanged

\* pool.connect resolves: client.query(INSERT ... ON CONFLICT (ticker) DO UPDATE) is sent
Connected(s) ==
  /\ slots[s].pc = "connect"
  /\ slots' = [slots EXCEPT ![s].pc = "query"]
  /\ UNCHANGED <<store, upsertsOk>>
  /\ SlotVarsUnchanged

\* pool.connect rejects: upsert throws, the callback's catch turns it into a failure
ConnectFailed(s) ==
  /\ slots[s].pc = "connect"
  /\ slots' = [slots EXCEPT ![s] = UpsertThrew(@, StoreErrorMsg)]
  /\ UNCHANGED <<store, upsertsOk>>
  /\ SlotVarsUnchanged

\* client.query resolves: the row is written, the client released, upsert returns and the
\* callback returns { success: true, ticker }
QueryOk(s) ==
  /\ slots[s].pc = "query"
  /\ store' = store \cup {slots[s].result.data}
  /\ upsertsOk' = upsertsOk + 1
  /\ slots' = [slots EXCEPT ![s].pc = "settled", ![s].value = ChunkValue(TRUE, "")]
  /\ SlotVarsUnchanged

\* client.query rejects: upsert logs, releases the client and rethrows
QueryFailed(s) ==
  /\ slots[s].pc = "query"
  /\ slots' = [slots EXCEPT ![s] = UpsertThrew(@, StoreErrorMsg)]
  /\ UNCHANGED <<store, upsertsOk>>
  /\ SlotVarsUnchanged

Next ==
  \/ TestConnectionOk
  \/ TestConnectionFailed
  \/ InitializeDatabaseOk
  \/ InitializeDatabaseThrew
  \/ HealthCheckDone
  \/ FindByTickerReturned
  \/ FindByTickerThrew
  \/ RunStart
  \/ JoinChunk
  \/ ChunkPauseElapsed
  \/ BatchPauseElapsed
  \/ \E s \in 1..Len(slots) : ResponseOk(s)
  \/ \E s \in 1..Len(slots) : ResponseEmpty(s)
  \/ \E s \in 1..Len(slots) : RequestError(s)
  \/ \E s \in 1..Len(slots) : DelayElapsed(s)
  \/ \E s \in 1..Len(slots) : BackoffElapsed(s)
  \/ \E s \in 1..Len(slots) : Connected(s)
  \/ \E s \in 1..Len(slots) : ConnectFailed(s)
  \/ \E s \in 1..Len(slots) : QueryOk(s)
  \/ \E s \in 1..Len(slots) : QueryFailed(s)

Spec == Init /\ [][Next]_vars

---------------------------------------------------------------------------
(* The script under every option value main() can parse and every tickers.json: *)
(* parseInt keeps the sign of --batch-size, --workers and --max-retries, and     *)
(* loadTickers keeps every entry of the file.                                    *)

MaxSpins == 3

\* a tickers.json that names a ticker twice
DuplicateTexts == << <<"V", "I", "C">>, <<"v", "i", "c">>, <<"V", "C", "B">> >>

\* --batch-size, --workers and --max-retries negative, 0 or positive
InitSigned ==
  \E n \in {1, 2}, w \in -1..1, b \in -1..1, k \in -1..1, cfg \in 1..2 :
    Started(n, w, k, b, cfg)

\* a tickers.json with a repeated entry, every entry in one chunk or one entry per chunk
InitDuplicates ==
  \E n \in 2..Len(DuplicateTexts), w \in {1, Len(DuplicateTexts)} :
    StartedWith(TickersJson(DuplicateTexts, n),
                SyncOptions(w, 1, 0, Undefined, Undefined, << >>, FALSE), 1)

\* --skip-existing over a hand-written tickers.json
InitSkipExisting ==
  StartedWith(TickersJson(MixedTexts, 2),
              SyncOptions(1, 1, 0, Undefined, Undefined, << >>, TRUE), 1)

InitCli ==
  \/ InitSigned
  \/ InitDuplicates
  \/ InitSkipExisting

\* the step of a splitting loop is i += size
SplitNext(i, size) == i + size

\* for (let i = 0; i < list.length; i += size): the test of the loop
SplitGoesOn(i, list) == i < Len(list)

CliFrame ==
  UNCHANGED <<options, cfgMaxRetries, tickersToSync, batchIndex, chunkIndex, slots,
              successCount, failedCount, totalSuccess, totalFailed, store, launched,
              chunkLog, upsertsOk, pauseLog, preludeVars, tableVars, apiVars, dbVars, asked>>

\* run() after filterTickers with a negative batch size, or syncWithWorkers with a negative
\* concurrency: the splitting loop pushes its first slice and steps backwards
SplitBackwards ==
  /\ pc = "filtered"
  /\ Len(tickersToSync) > 0
  /\ BatchSize < 0 \/ Concurrency < 0
  /\ IF BatchSize < 0
     THEN pc' = "batches" /\ loopIndex' = SplitNext(0, BatchSize)
     ELSE pc' = "chunks" /\ loopIndex' = SplitNext(0, Concurrency)
  /\ CliFrame

\* the index of a loop that steps backwards, kept for MaxSpins turns and then counted
\* again from the first turn: it stays negative, which is all the test of the loop reads
FoldIndex(i) == IF -i > MaxSpins THEN -1 ELSE i

\* one more turn of the loop: the test i < length holds, an empty slice is pushed, and
\* nothing in the loop ever makes the test fail
SplitAgain ==
  /\ pc \in {"batches", "chunks"}
  /\ SplitGoesOn(loopIndex, tickersToSync)
  /\ loopIndex' = FoldIndex(SplitNext(loopIndex,
                                       IF pc = "batches" THEN BatchSize ELSE Concurrency))
  /\ UNCHANGED pc
  /\ CliFrame

NextCli ==
  \/ Next
  \/ SplitBackwards
  \/ SplitAgain

\* every handler that is ready runs: the event loop starves none, and every request and
\* every store call is answered
SpecCli == InitCli /\ [][NextCli]_vars /\ WF_vars(NextCli)

---------------------------------------------------------------------------
(* SimplizeService.transformSimplizeData: the dates of a raw summary.  A    *)
(* number is a record (parseInt can give NaN); a Date is undefined, invalid *)
(* or the calendar fields it shows (local time when it was built from       *)
(* fields, UTC when it was parsed from a text).                             *)

Digits == <<"0", "1", "2", "3", "4", "5", "6", "7", "8", "9">>

\* a text property the summary does not have
NoText == <<"undefined">>

NaN == [nan |-> TRUE, n |-> 0]

Num(n) == [nan |-> FALSE, n |-> n]

NoDate == [kind |-> "undefined"]

InvalidDate == [kind |-> "invalid"]

\* if (x) on a string: undefined and '' are falsy
Truthy(text) == text # NoText /\ text # << >>

\* String.prototype.includes for one character
IncludesChar(text, c) == \E i \in 1..Len(text) : text[i] = c

\* String.prototype.split for a separator of one character
RECURSIVE Split(_, _)
Split(text, sep) ==
  IF ~IncludesChar(text, sep) THEN <<text>>
  ELSE LET i == CHOOSE j \in 1..Len(text) :
                  text[j] = sep /\ \A k \in 1..(j - 1) : text[k] # sep
       IN  <<SubSeq(text, 1, i - 1)>> \o Split(SubSeq(text, i + 1, Len(text)), sep)

\* parts[index] of an array of texts: undefined past its end
At(parts, index) == IF index < Len(parts) THEN parts[index + 1] ELSE NoText

DigitValue(c) == (CHOOSE i \in 1..Len(Digits) : Digits[i] = c) - 1

IsDigit(c) == \E i \in 1..Len(Digits) : Digits[i] = c

\* the value of the longest prefix of digits, read after the digits already seen
RECURSIVE DigitsValue(_, _)
DigitsValue(text, seen) ==
  IF text = << >> \/ ~IsDigit(Head(text)) THEN seen
  ELSE DigitsValue(Tail(text), 10 * seen + DigitValue(Head(text)))

\* parseInt(text): white space is skipped, then an optional sign and the decimal digits
\* up to the first other character are read; NaN when there is no digit
ParseInt(text) ==
  LET t    == TrimStart(text)
      neg  == t # << >> /\ Head(t) = "-"
      body == IF t # << >> /\ Head(t) \in {"-", "+"} THEN Tail(t) ELSE t
  IN  IF body = << >> \/ ~IsDigit(Head(body)) THEN NaN
      ELSE Num(IF neg THEN 0 - DigitsValue(body, 0) ELSE DigitsValue(body, 0))

\* days from 1970-01-01 to the given day of the proleptic Gregorian calendar (month 1..12)
DaysFromCivil(y, m, d) ==
  LET yy  == IF m <= 2 THEN y - 1 ELSE y
      era == yy \div 400
      yoe == yy - era * 400
      mp  == IF m > 2 THEN m - 3 ELSE m + 9
      doy == (153 * mp + 2) \div 5 + d - 1
      doe == yoe * 365 + yoe \div 4 - yoe \div 100 + doy
  IN  era * 146097 + doe - 719468

\* the calendar day that many days after 1970-01-01
CivilFromDays(days) ==
  LET z   == days + 719468
      era == z \div 146097
      doe == z - era * 146097
      yoe == (doe - doe \div 1460 + doe \div 36524 - doe \div 146096) \div 365
      doy == doe - (365 * yoe + yoe \div 4 - yoe \div 100)
      mp  == (5 * doy + 2) \div 153
      d   == doy - (153 * mp + 2) \div 5 + 1
      m   == IF mp < 10 THEN mp + 3 ELSE mp - 9
  IN  [year |-> yoe + era * 400 + (IF m <= 2 THEN 1 ELSE 0), month |-> m, day |-> d]

\* new Date(year, monthIndex, day, hours, minutes, seconds): NaN in any argument gives an
\* invalid date, a year from 0 to 99 means 1900 + year, and fields out of range carry over
NewDate(year, monthIndex, day, hours, minutes, seconds) ==
  IF \E a \in {year, monthIndex, day, hours, minutes, seconds} : a.nan THEN InvalidDate
  ELSE LET y    == IF year.n \in 0..99 THEN 1900 + year.n ELSE year.n
           yAdj == y + monthIndex.n \div 12
           mon  == monthIndex.n % 12
           secs == hours.n * 3600 + minutes.n * 60 + seconds.n
           date == CivilFromDays(DaysFromCivil(yAdj, mon + 1, 1) + day.n - 1 + secs \div 86400)
           rest == secs % 86400
       IN  [kind |-> "date", zone |-> "local", year |-> date.year, month |-> date.month,
            day |-> date.day, hours |-> rest \div 3600, minutes |-> (rest % 3600) \div 60,
            seconds |-> rest % 60]

\* n - 1 on a number
MinusOne(a) == IF a.nan THEN NaN ELSE Num(a.n - 1)

\* a text of the layout YYYY-MM-DD
IsIsoDate(text) ==
  /\ Len(text) = 10
  /\ text[5] = "-"
  /\ text[8] = "-"
  /\ \A i \in {1, 2, 3, 4, 6, 7, 9, 10} : IsDigit(text[i])

\* new Date(text): an ISO date is midnight UTC of that day when the day exists; a text
\* that is no date in any layout gives an invalid date
DateParse(text) ==
  IF IsIsoDate(text)
  THEN LET y == DigitsValue(SubSeq(text, 1, 4), 0)
           m == DigitsValue(SubSeq(text, 6, 7), 0)
           d == DigitsValue(SubSeq(text, 9, 10), 0)
       IN  IF m \in 1..12 /\ d >= 1
              /\ CivilFromDays(DaysFromCivil(y, m, d)) = [year |-> y, month |-> m, day |-> d]
           THEN [kind |-> "date", zone |-> "UTC", year |-> y, month |-> m, day |-> d,
                 hours |-> 0, minutes |-> 0, seconds |-> 0]
           ELSE InvalidDate
  ELSE InvalidDate

\* variant: the first part is read as the month (MM/DD/YYYY)
MonthDayYear(dateParts) ==
  [day |-> At(dateParts, 1), month |-> At(dateParts, 0), year |-> At(dateParts, 2)]

\* const day = dateParts[0]; const month = dateParts[1]; const year = dateParts[2]
DayMonthYear(dateParts) ==
  [day |-> At(dateParts, 0), month |-> At(dateParts, 1), year |-> At(dateParts, 2)]

\* analysisUpdated of the Company: DD/MM/YYYY when the text has a '/', else new Date(text)
AnalysisUpdated(dateStr) ==
  IF ~Truthy(dateStr) THEN NoDate
  ELSE IF IncludesChar(dateStr, "/")
  THEN LET p == DayMonthYear(Split(dateStr, "/"))
       IN  IF Truthy(p.day) /\ Truthy(p.month) /\ Truthy(p.year)
           THEN NewDate(ParseInt(p.year), MinusOne(ParseInt(p.month)),
                               ParseInt(p.day), Num(0), Num(0), Num(0))
           ELSE NoDate
  ELSE DateParse(dateStr)

\* priceTimestamp of the Company: DD/MM/YYYY HH:mm:ss, split at ' ', '/' and ':'
PriceTimestamp(text) ==
  IF ~Truthy(text) THEN NoDate
  ELSE LET parts    == Split(text, " ")
           datePart == At(parts, 0)
           timePart == At(parts, 1)
       IN  IF Truthy(datePart) /\ Truthy(timePart)
           THEN LET p == DayMonthYear(Split(datePart, "/"))
                    t == Split(timePart, ":")
                IN  IF /\ Truthy(p.day) /\ Truthy(p.month) /\ Truthy(p.year)
                       /\ Truthy(At(t, 0)) /\ Truthy(At(t, 1)) /\ Truthy(At(t, 2))
                    THEN NewDate(ParseInt(p.year), MinusOne(ParseInt(p.month)),
                                        ParseInt(p.day), ParseInt(At(t, 0)),
                                        ParseInt(At(t, 1)), ParseInt(At(t, 2)))
                    ELSE NoDate
           ELSE NoDate

---------------------------------------------------------------------------
(* CompanyModel.upsert on table companies, called by concurrent callers.   *)
(* ticker, nameVi, stockExchange, analysisUpdated and priceTimestamp stand *)
(* for the 69 mapped columns; id, createdAt and updatedAt are set by the   *)
(* database.                                                               *)
(*   pc of a call: "connect"  awaiting pool.connect                        *)
(*                 "query"    awaiting client.query                        *)
(*                 "returned" upsert returned the row                      *)
(*                 "threw"    upsert threw                                 *)

MaxCalls == 2
MaxClock == 2

\* a property the Company object does not have
NoField == "undefined"

SqlNull == "NULL"

\* the Company objects handed to upsert
CompanyData ==
  {[ticker |-> t, nameVi |-> f[1], stockExchange |-> f[2], analysisUpdated |-> NoDate,
    priceTimestamp |-> NoDate] :
     t \in {TickerNames[1], TickerNames[2]},
     f \in {<<"Vingroup", NoField>>, <<NoField, "HOSE">>}}

\* node-postgres sends an undefined parameter as NULL
Param(v) == IF v = NoField THEN SqlNull ELSE v

\* n in at least `width` decimal digits
Pad(n, width) ==
  LET digits == ToString(n)
  IN  IF width = 4 /\ n < 10 THEN "000" \o digits
      ELSE IF width = 4 /\ n < 100 THEN "00" \o digits
      ELSE IF width = 4 /\ n < 1000 THEN "0" \o digits
      ELSE IF width = 2 /\ n < 10 THEN "0" \o digits
      ELSE digits

\* what node-postgres makes of an invalid Date: every field of it is NaN
InvalidDateText == "NaN-NaN-NaN NaN:NaN:NaN"

\* node-postgres sends a Date parameter as the text of its fields
DateParam(date) ==
  IF date.kind = "undefined" THEN SqlNull
  ELSE IF date.kind = "invalid" THEN InvalidDateText
  ELSE Pad(date.year, 4) \o "-" \o Pad(date.month, 2) \o "-" \o Pad(date.day, 2) \o " "
         \o Pad(date.hours, 2) \o ":" \o Pad(date.minutes, 2) \o ":" \o Pad(date.seconds, 2)
         \o (IF date.zone = "UTC" THEN "Z" ELSE "")

\* variant: the values are kept in a buffer shared by the calls in progress
QueryValuesShared(companyData) ==
  LET latest == calls[Len(calls)].data
  IN  [ticker |-> Param(companyData.ticker), nameVi |-> Param(latest.nameVi),
       stockExchange |-> Param(latest.stockExchange),
       analysisUpdated |-> DateParam(latest.analysisUpdated),
       priceTimestamp |-> DateParam(latest.priceTimestamp)]

\* const values = [companyData.ticker, companyData.nameVi, ...]
QueryValues(companyData) ==
  [ticker |-> Param(companyData.ticker), nameVi |-> Param(companyData.nameVi),
   stockExchange |-> Param(companyData.stockExchange),
   analysisUpdated |-> DateParam(companyData.analysisUpdated),
   priceTimestamp |-> DateParam(companyData.priceTimestamp)]

\* analysis_updated DATE, price_timestamp TIMESTAMP: the statement fails on a parameter
\* that is no date
Accepted(values) ==
  values.analysisUpdated # InvalidDateText /\ values.priceTimestamp # InvalidDateText

\* variant: the conflict target is a column no insert collides on
ConflictRowsNone(table, values) == {}

\* ON CONFLICT (ticker): the rows the unique index on ticker finds for the new row
ConflictRows(table, values) == {row \in table : row.ticker = values.ticker}

\* variant: col = COALESCE(EXCLUDED.col, companies.col)
AssignedCoalesce(old, excluded) == IF excluded = SqlNull THEN old ELSE excluded

\* DO UPDATE SET col = EXCLUDED.col
Assigned(old, excluded) == excluded

\* the row INSERT proposes: id from the sequence, created_at and updated_at by default
Inserted(values, ts, id) ==
  [id |-> id, ticker |-> values.ticker, nameVi |-> values.nameVi,
   stockExchange |-> values.stockExchange, analysisUpdated |-> values.analysisUpdated,
   priceTimestamp |-> values.priceTimestamp, createdAt |-> ts, updatedAt |-> ts]

\* DO UPDATE SET ... , updated_at = CURRENT_TIMESTAMP
Updated(row, values, ts) ==
  [row EXCEPT !.nameVi = Assigned(@, values.nameVi),
              !.stockExchange = Assigned(@, values.stockExchange),
              !.analysisUpdated = Assigned(@, values.analysisUpdated),
              !.priceTimestamp = Assigned(@, values.priceTimestamp),
              !.updatedAt = ts]

\* variant: the table is rewritten with the incoming row (DELETE FROM companies; INSERT)
StatementRewrite(table, values, ts, id) == {Inserted(values, ts, id)}

\* INSERT INTO companies ... ON CONFLICT (ticker) DO UPDATE SET ... : the table afterwards
Statement(table, values, ts, id) ==
  IF ConflictRows(table, values) = {}
  THEN table \cup {Inserted(values, ts, id)}
  ELSE (table \ ConflictRows(table, values))
         \cup {Updated(row, values, ts) : row \in ConflictRows(table, values)}

\* RETURNING *: the row written by the statement
Returning(table, values, ts, id) ==
  IF ConflictRows(table, values) = {}
  THEN Inserted(values, ts, id)
  ELSE Updated(CHOOSE row \in ConflictRows(table, values) : TRUE, values, ts)

RunUnchanged ==
  UNCHANGED <<options, cfgMaxRetries, tickersToSync, pc, batchIndex, chunkIndex, slots,
              successCount, failedCount, totalSuccess, totalFailed, launched, chunkLog,
              upsertsOk, pauseLog, preludeVars, apiVars, dbVars,
              loopIndex, asked>>

\* no run of the script: the callers of upsert are on their own
ScriptIdle ==
  /\ options = SyncOptions(0, 0, 0, Undefined, Undefined, << >>, FALSE)
  /\ cfgMaxRetries = 1
  /\ tickersFile = TickersJson(TickerTexts, 0)
  /\ allTickers = << >>
  /\ filteredTickers = << >>
  /\ existingTickers = << >>
  /\ queried = << >>
  /\ dbConnected = "pending"
  /\ runError = ""
  /\ tickersToSync = << >>
  /\ pc = "idle"
  /\ batchIndex = 0
  /\ chunkIndex = 0
  /\ slots = << >>
  /\ successCount = 0
  /\ failedCount = 0
  /\ totalSuccess = 0
  /\ totalFailed = 0
  /\ launched = 0
  /\ chunkLog = << >>
  /\ upsertsOk = 0
  /\ pauseLog = << >>
  /\ requests = << >>
  /\ read = NoRead
  /\ asked = << >>
  /\ loopIndex = 0

\* no run of the script and nobody at the pool
RunIdle == ScriptIdle /\ DbIdle

\* the table is empty, or holds a row written by an earlier run
InitStore ==
  /\ RunIdle
  /\ companies \in {{}, {Inserted([ticker |-> TickerNames[1], nameVi |-> "VIC",
                                   stockExchange |-> "HNX", analysisUpdated |-> SqlNull,
                                   priceTimestamp |-> SqlNull], 0, 1)}}
  /\ store = {row.ticker : row \in companies}
  /\ idSeq = Cardinality(companies) + 1
  /\ now = 0
  /\ calls = << >>
  /\ commits = << >>
  /\ summaries = << >>

\* upsert(companyData) is called: pool.connect() is awaited
CallUpsert(companyData) ==
  /\ Len(calls) < MaxCalls
  /\ calls' = Append(calls, [data |-> companyData, pc |-> "connect", ts |-> 0,
                             row |-> NoRow,
                             after |-> {c \in 1..Len(calls) :
                                          calls[c].pc \in {"returned", "threw"}}])
  /\ UNCHANGED <<companies, store, now, idSeq, commits, summaries>>
  /\ RunUnchanged

\* pool.connect resolves: the statement is sent and starts (CURRENT_TIMESTAMP is its start)
UpsertConnected(c) ==
  /\ calls[c].pc = "connect"
  /\ calls' = [calls EXCEPT ![c].pc = "query", ![c].ts = now]
  /\ UNCHANGED <<companies, store, now, idSeq, commits, summaries>>
  /\ RunUnchanged

\* pool.connect rejects: upsert throws
UpsertConnectFailed(c) ==
  /\ calls[c].pc = "connect"
  /\ calls' = [calls EXCEPT ![c].pc = "threw"]
  /\ UNCHANGED <<companies, store, now, idSeq, commits, summaries>>
  /\ RunUnchanged

\* the statement commits: client.query resolves, the client is released, upsert returns
\* mapDbRowToCompany(result.rows[0])
UpsertQueryOk(c) ==
  /\ calls[c].pc = "query"
  /\ Accepted(QueryValues(calls[c].data))
  /\ LET values == QueryValues(calls[c].data)
     IN  /\ companies' = Statement(companies, values, calls[c].ts, idSeq)
         /\ calls' = [calls EXCEPT ![c].pc = "returned",
                                   ![c].row = Returning(companies, values, calls[c].ts, idSeq)]
  /\ store' = {row.ticker : row \in companies'}
  /\ idSeq' = idSeq + 1
  /\ commits' = Append(commits, c)
  /\ UNCHANGED <<now, summaries>>
  /\ RunUnchanged

\* the statement fails: client.query rejects, upsert logs, releases the client and rethrows
UpsertQueryFailed(c) ==
  /\ calls[c].pc = "query"
  /\ calls' = [calls EXCEPT ![c].pc = "threw"]
  /\ UNCHANGED <<companies, store, now, idSeq, commits, summaries>>
  /\ RunUnchanged

\* time passes on the database server
Tick ==
  /\ now < MaxClock
  /\ now' = now + 1
  /\ UNCHANGED <<companies, store, idSeq, calls, commits, summaries>>
  /\ RunUnchanged

NextStore ==
  \/ \E companyData \in CompanyData : CallUpsert(companyData)
  \/ \E c \in 1..Len(calls) : UpsertConnected(c)
  \/ \E c \in 1..Len(calls) : UpsertConnectFailed(c)
  \/ \E c \in 1..Len(calls) : UpsertQueryOk(c)
  \/ \E c \in 1..Len(calls) : UpsertQueryFailed(c)
  \/ Tick

SpecStore == InitStore /\ [][NextStore]_vars

---------------------------------------------------------------------------
(* The record of one identifier: fetchCompanyData receives the raw summary, *)
(* transformSimplizeData normalises it and the worker callback hands the    *)
(* Company to CompanyModel.upsert.                                          *)

MaxFetched == 1

TwoDigits(n) == <<Digits[(n \div 10) + 1], Digits[(n % 10) + 1]>>

FourDigits(n) == TwoDigits(n \div 100) \o TwoDigits(n % 100)

\* the text DD/MM/YYYY of a day <<day, month, year>>
DateText(day) == TwoDigits(day[1]) \o <<"/">> \o TwoDigits(day[2]) \o <<"/">> \o FourDigits(day[3])

\* the text HH:mm:ss of a time <<hour, minute, second>>
TimeText(time) ==
  TwoDigits(time[1]) \o <<":">> \o TwoDigits(time[2]) \o <<":">> \o TwoDigits(time[3])

\* the days and times the source reports
Days == {<<5, 3, 2024>>, <<29, 2, 2024>>, <<31, 12, 1999>>}

Times == {<<9, 30, 0>>, <<23, 59, 59>>}

NotADate == <<"n", "o", "t", "-", "a", "-", "d", "a", "t", "e">>

NotAvailable == <<"N", "/", "A">>

BlankDate == <<"-", "-", "/", "-", "-", "/", "-", "-", "-", "-">>

BlankTime == <<"-", "-", ":", "-", "-", ":", "-", "-">>

IsoDate == <<"2", "0", "2", "4", "-", "0", "3", "-", "0", "5">>

\* summary.analysisUpdated as the source sends it
AnalysisTexts ==
  {NoText, << >>, NotADate, NotAvailable, BlankDate, IsoDate} \cup {DateText(day) : day \in Days}

\* summary.priceTimeStamp as the source sends it
PriceTexts ==
  {NoText, NotADate, BlankDate \o <<" ">> \o BlankTime}
    \cup {DateText(day) \o <<" ">> \o TimeText(time) : day \in Days, time \in Times}

\* response.data.pageProps.summary
\* summary.ticker as the source sends it: the ticker of the URL, in the source's own
\* spelling, or the ticker the source files the company under
PayloadTickers == {TickerNames[1], "vic", TickerNames[2]}

Summaries ==
  {[ticker |-> TickerNames[1], name |-> "Vingroup", nameVi |-> nameVi,
    stockExchange |-> "HOSE", analysisUpdated |-> a, priceTimeStamp |-> p] :
     nameVi \in {NoField}, a \in AnalysisTexts, p \in PriceTexts}
    \cup {[ticker |-> ticker, name |-> "Vingroup", nameVi |-> NoField,
           stockExchange |-> "HOSE", analysisUpdated |-> NoText, priceTimeStamp |-> NoText] :
            ticker \in PayloadTickers}

\* transformSimplizeData(summary)
TransformSimplizeData(summary) ==
  [ticker |-> summary.ticker,
   nameVi |-> IF summary.nameVi \in {NoField, ""} THEN summary.name ELSE summary.nameVi,
   stockExchange |-> summary.stockExchange,
   analysisUpdated |-> AnalysisUpdated(summary.analysisUpdated),
   priceTimestamp |-> PriceTimestamp(summary.priceTimeStamp)]

InitTransform == RunIdle /\ TableIdle /\ store = {}

\* fetchWithRetry(ticker, ...) calls fetchCompanyData(ticker), which puts the ticker in the
\* URL; the source answers with `summary`: fetchCompanyData returns the Company made of it,
\* fetchWithRetry returns it and the callback calls upsert(result.data)
FetchedSummary(ticker, summary) ==
  /\ Len(calls) < MaxFetched
  /\ calls' = Append(calls, [data |-> TransformSimplizeData(summary), pc |-> "connect",
                             ts |-> 0, row |-> NoRow,
                             after |-> {c \in 1..Len(calls) :
                                          calls[c].pc \in {"returned", "threw"}}])
  /\ summaries' = Append(summaries, summary)
  /\ asked' = Append(asked, ticker)
  /\ UNCHANGED <<companies, store, now, idSeq, commits>>
  /\ UNCHANGED <<options, cfgMaxRetries, tickersToSync, pc, batchIndex, chunkIndex, slots,
                 successCount, failedCount, totalSuccess, totalFailed, launched, chunkLog,
                 upsertsOk, pauseLog, preludeVars, apiVars, dbVars, loopIndex>>

NextTransform ==
  \/ \E summary \in Summaries : FetchedSummary(TickerNames[1], summary)
  \/ \E c \in 1..Len(calls) : UpsertConnected(c)
  \/ \E c \in 1..Len(calls) : UpsertConnectFailed(c)
  \/ \E c \in 1..Len(calls) : UpsertQueryOk(c)
  \/ \E c \in 1..Len(calls) : UpsertQueryFailed(c)

SpecTransform == InitTransform /\ [][NextTransform]_vars

---------------------------------------------------------------------------
(* CompanyController: GET /companies, GET /companies/search and             *)
(* GET /companies/:ticker.  A handler validates its parameters with Joi,    *)
(* awaits one CompanyModel method and answers; everything it throws goes   *)
(* through next(error) to errorHandler.                                     *)
(*   pc of a request: "model"     awaiting the CompanyModel method          *)
(*                    "responded" res.status(...).json(...) was called      *)

MaxRequests == 1

\* limits of the Joi schemas
MaxLimit == 100
MaxSearchLimit == 50
MaxQueryLength == 100
MaxTickerLength == 20
DefaultPage == 1
DefaultLimit == 20
DefaultSearchLimit == 10

\* a Joi rule without an upper limit
NoMax == -1

\* the text of n characters c
Repeat(c, n) == [i \in 1..n |-> c]

\* the decimal number a query text denotes to Joi.number(): digits with an optional sign
\* and fraction, white space around them allowed; nothing else is a number
ToNumber(text) ==
  LET t      == Trim(text)
      neg    == t # << >> /\ Head(t) = "-"
      body   == IF t # << >> /\ Head(t) \in {"-", "+"} THEN Tail(t) ELSE t
      parts  == Split(body, ".")
      whole  == parts[1]
      frac   == IF Len(parts) = 2 THEN parts[2] ELSE << >>
      digits == \A i \in 1..Len(whole) : IsDigit(whole[i])
  IN  IF whole = << >> \/ Len(parts) > 2 \/ ~digits \/ \E i \in 1..Len(frac) : ~IsDigit(frac[i])
      THEN [nan |-> TRUE, n |-> 0, integer |-> FALSE]
      ELSE [nan |-> FALSE,
            n |-> IF neg THEN 0 - DigitsValue(whole, 0) ELSE DigitsValue(whole, 0),
            integer |-> \A i \in 1..Len(frac) : frac[i] = "0"]

Invalid(message) == [error |-> message, value |-> 0]

Valid(value) == [error |-> "", value |-> value]

\* Joi.number().integer().min(min).max(max).default(default) on a query text
JoiInteger(text, min, max, default) ==
  IF text = NoText THEN Valid(default)
  ELSE LET v == ToNumber(text)
       IN  IF v.nan THEN Invalid("must be a number")
           ELSE IF ~v.integer THEN Invalid("must be an integer")
           ELSE IF v.n < min THEN Invalid("must be greater than or equal to min")
           ELSE IF max # NoMax /\ v.n > max THEN Invalid("must be less than or equal to max")
           ELSE Valid(v.n)

IsAlphanumeric(c) ==
  \/ IsDigit(c)
  \/ \E i \in 1..Len(LowerCase) : c \in {LowerCase[i], UpperCase[i]}

\* Joi.string().required().trim().min(1).max(max) and, for a ticker, .pattern(/^[A-Z0-9]+$/i):
\* the text is trimmed first and the rules read the trimmed text
JoiString(text, max, alphanumeric) ==
  IF text = NoText THEN Invalid("is required")
  ELSE LET t == Trim(text)
       IN  IF t = << >> THEN Invalid("is not allowed to be empty")
           ELSE IF Len(t) > max
           THEN Invalid("length must be less than or equal to max characters long")
           ELSE IF alphanumeric /\ \E i \in 1..Len(t) : ~IsAlphanumeric(t[i])
           THEN Invalid("fails to match the required pattern")
           ELSE Valid(t)

\* schema.validate(...): the first rule that fails, else the converted values
Validate(route, input) ==
  IF route = "getAllCompanies"
  THEN LET page  == JoiInteger(input.page, 1, NoMax, DefaultPage)
           limit == JoiInteger(input.limit, 1, MaxLimit, DefaultLimit)
       IN  IF page.error # "" THEN page
           ELSE IF limit.error # "" THEN limit
           ELSE Valid([page |-> page.value, limit |-> limit.value])
  ELSE IF route = "searchCompanies"
  THEN LET q     == JoiString(input.q, MaxQueryLength, FALSE)
           limit == JoiInteger(input.limit, 1, MaxSearchLimit, DefaultSearchLimit)
       IN  IF q.error # "" THEN q
           ELSE IF limit.error # "" THEN limit
           ELSE Valid([q |-> q.value, limit |-> limit.value])
  ELSE LET ticker == JoiString(input.ticker, MaxTickerLength, TRUE)
       IN  IF ticker.error # "" THEN ticker ELSE Valid([ticker |-> ticker.value])

\* the CompanyModel method a handler awaits
Method(route) ==
  IF route = "getAllCompanies" THEN "findAll"
  ELSE IF route = "searchCompanies" THEN "search"
  ELSE "findByTicker"

\* new AppError(message, statusCode)
AppError(statusCode) == [name |-> "Error", code |-> NoField, statusCode |-> statusCode]

NoError == [name |-> "", code |-> NoField, statusCode |-> 0]

\* what a CompanyModel method can throw: a plain Error, a PostgreSQL error with its
\* SQLSTATE, a connection error of the driver
ModelErrors ==
  {[name |-> "Error", code |-> code, statusCode |-> 0] :
     code \in {NoField, "23505", "23502", "42P01", "ECONNREFUSED"}}

\* errorHandler(err, req, res, next): the response it sends
ErrorHandler(err) ==
  LET copied    == err.statusCode
      cast      == IF err.name = "CastError" THEN 404 ELSE copied
      validated == IF err.name = "ValidationError" THEN 400 ELSE cast
      database  == IF err.code = NoField THEN validated
                   ELSE IF err.code = "23505" THEN 409
                   ELSE IF err.code \in {"23503", "23502"} THEN 400
                   ELSE 500
      token     == IF err.name \in {"JsonWebTokenError", "TokenExpiredError"} THEN 401
                   ELSE database
  IN  [status |-> IF token = 0 THEN 500 ELSE token, success |-> FALSE, data |-> NoRow]

\* variant: the catch block answers with an empty result
NextErrorAsEmpty(request, err) ==
  [request EXCEPT !.pc = "responded", !.thrown = err,
                  !.response = [status |-> 200, success |-> TRUE, data |-> NoRow]]

\* catch (error) { next(error) }: errorHandler answers
NextError(request, err) ==
  [request EXCEPT !.pc = "responded", !.thrown = err, !.response = ErrorHandler(err)]

\* a request as the handler starts on it
Received(route, input) ==
  [route |-> route, input |-> input, pc |-> "model", called |-> << >>, result |-> NoRow,
   thrown |-> NoError, response |-> [status |-> 0, success |-> FALSE, data |-> NoRow]]

\* variant: the model method is called with the raw parameters before they are validated
HandleQueryFirst(route, input) ==
  LET checked == Validate(route, input)
      request == [Received(route, input) EXCEPT
                    !.called = <<[method |-> Method(route), args |-> input]>>]
  IN  IF checked.error # ""
      THEN NextError(request, AppError(400))
      ELSE [request EXCEPT !.called = <<[method |-> Method(route), args |-> checked.value]>>]

\* the handler up to its first await: a validation error is thrown as AppError(400),
\* else the model method is called with the validated values
Handle(route, input) ==
  LET checked == Validate(route, input)
      request == Received(route, input)
  IN  IF checked.error # ""
      THEN NextError(request, AppError(400))
      ELSE [request EXCEPT !.called = <<[method |-> Method(route), args |-> checked.value]>>]

\* findByTicker: SELECT * FROM companies WHERE ticker = $1 with ticker.toUpperCase();
\* rows[0], or null (NoRow) when there is none
FindByTickerRow(ticker) ==
  LET rows == {row \in companies : row.ticker = Str(ToUpperCase(ticker))}
  IN  IF rows = {} THEN NoRow ELSE CHOOSE row \in rows : TRUE

\* variant: a missing company is answered like a found one
MissingNever(company) == FALSE

\* if (!company)
Missing(company) == company = NoRow

\* the handler after its await: 404 for a ticker without a row, else 200 with the result
Answer(request, result) ==
  IF request.route = "getCompanyByTicker" /\ Missing(result)
  THEN [NextError(request, AppError(404)) EXCEPT !.result = result, !.thrown = NoError]
  ELSE [request EXCEPT !.pc = "responded", !.result = result,
                       !.response = [status |-> 200, success |-> TRUE, data |-> result]]

\* the path parameters and query strings of the requests
PageTexts ==
  {NoText, <<"1">>, <<"2">>, <<"0">>, <<"-", "1">>, <<"1", ".", "5">>, <<"a", "b", "c">>}

LimitTexts == {NoText, <<"1", "0", "0">>, <<"1", "0", "1">>, <<"0">>}

QueryTexts ==
  {NoText, << >>, <<" ">>, <<"v", "i", "n">>, Repeat("a", MaxQueryLength),
   Repeat("a", MaxQueryLength + 1), <<" ">> \o Repeat("a", MaxQueryLength)}

SearchLimitTexts == {NoText, <<"5", "0">>, <<"5", "1">>}

InvalidTicker ==
  <<"i", "n", "v", "a", "l", "i", "d", "-", "t", "i", "c", "k", "e", "r", "!">>

PathTickers ==
  {<<"V", "I", "C">>, <<"v", "i", "c">>, <<" ", "V", "I", "C">>, <<"V", "N", "M">>,
   InvalidTicker, <<"V", "N", "3", "0", "F", "1", "M">>, <<"V", " ", "C">>,
   Repeat("A", MaxTickerLength), Repeat("A", MaxTickerLength + 1)}

Inputs(route) ==
  IF route = "getAllCompanies"
  THEN {[page |-> page, limit |-> limit] : page \in PageTexts, limit \in LimitTexts}
  ELSE IF route = "searchCompanies"
  THEN {[q |-> q, limit |-> limit] : q \in QueryTexts, limit \in SearchLimitTexts}
  ELSE {[ticker |-> ticker] : ticker \in PathTickers}

Routes == {"getAllCompanies", "searchCompanies", "getCompanyByTicker"}

\* the table holds the row of VIC, or is empty
InitApi ==
  /\ RunIdle
  /\ companies \in {{}, {Inserted([ticker |-> TickerNames[1], nameVi |-> "Vingroup",
                                   stockExchange |-> "HOSE", analysisUpdated |-> SqlNull,
                                   priceTimestamp |-> SqlNull], 0, 1)}}
  /\ store = {row.ticker : row \in companies}
  /\ idSeq = Cardinality(companies) + 1
  /\ now = 0
  /\ calls = << >>
  /\ commits = << >>
  /\ summaries = << >>

ApiFrame ==
  UNCHANGED <<options, cfgMaxRetries, tickersToSync, pc, batchIndex, chunkIndex, slots,
              successCount, failedCount, totalSuccess, totalFailed, store, launched,
              chunkLog, upsertsOk, pauseLog, preludeVars, tableVars, read, dbVars,
              loopIndex, asked>>

\* a request arrives and its handler runs up to its first await
Request(route, input) ==
  /\ Len(requests) < MaxRequests
  /\ requests' = Append(requests, Handle(route, input))
  /\ ApiFrame

\* findByTicker resolves
FindByTickerResolved(r) ==
  /\ requests[r].pc = "model"
  /\ requests[r].route = "getCompanyByTicker"
  /\ requests' = [requests EXCEPT
                    ![r] = Answer(@, FindByTickerRow(requests[r].called[1].args.ticker))]
  /\ ApiFrame

\* findAll or search resolves with rows of the table
ListResolved(r, rows) ==
  /\ requests[r].pc = "model"
  /\ requests[r].route \in {"getAllCompanies", "searchCompanies"}
  /\ requests' = [requests EXCEPT ![r] = Answer(@, [rows |-> rows])]
  /\ ApiFrame

\* the CompanyModel method rejects with err
ModelThrew(r, err) ==
  /\ requests[r].pc = "model"
  /\ requests' = [requests EXCEPT ![r] = NextError(@, err)]
  /\ ApiFrame

NextApi ==
  \/ \E route \in Routes : \E input \in Inputs(route) : Request(route, input)
  \/ \E r \in 1..Len(requests) : FindByTickerResolved(r)
  \/ \E r \in 1..Len(requests) : \E rows \in SUBSET companies : ListResolved(r, rows)
  \/ \E r \in 1..Len(requests) : \E err \in ModelErrors : ModelThrew(r, err)

SpecApi == InitApi /\ [][NextApi]_vars

---------------------------------------------------------------------------
(* CompanyModel.findByTicker and CompanyModel.findAll, one call after the   *)
(* other, while the pipeline may write to the table.  A query is the tree   *)
(* of its text (the strings interpolated into it appear as they are) and   *)
(* the values bound to its $n parameters; industry and sector filters are  *)
(* built like the exchange filter and are left out.                         *)
(*   pc of the call: "query"    findByTicker awaiting pool.query            *)
(*                   "count"    findAll awaiting the count query            *)
(*                   "data"     findAll awaiting the data query             *)
(*                   "returned", "threw"                                    *)

MaxRows == 3

\* const allowedSortFields = [...]
AllowedSortFields ==
  {"ticker", "name_vi", "market_cap", "price_close", "pct_change", "pe_ratio", "pb_ratio",
   "roe", "roa", "created_at", "updated_at"}

\* variant: the caller's sortBy is interpolated as it is
SortByAsGiven(sortBy) == sortBy

\* sortBy = 'ticker' by default; allowedSortFields.includes(sortBy) ? sortBy : 'ticker'
SafeSortBy(sortBy) == IF sortBy \in AllowedSortFields THEN sortBy ELSE "ticker"

\* sortOrder === 'desc' ? 'DESC' : 'ASC'
SafeSortOrder(sortOrder) == IF sortOrder = "desc" THEN "DESC" ELSE "ASC"

\* a destructured parameter with a default
OrDefault(v, default) == IF v = Undefined THEN default ELSE v

\* the filters findAll builds, in order: what they compare and the value each one binds
Filters(params) ==
  (IF Truthy(params.search)
   THEN <<[columns |-> <<"ticker", "name_vi", "name_en">>, op |-> "ILIKE",
           value |-> <<"%">> \o params.search \o <<"%">>]>>
   ELSE << >>)
  \o (IF Truthy(params.exchange)
      THEN <<[columns |-> <<"stock_exchange">>, op |-> "=",
              value |-> ToUpperCase(params.exchange)]>>
      ELSE << >>)

\* conditions.push(`... $${paramIndex}`); paramIndex++
Conditions(filters) ==
  [i \in 1..Len(filters) |-> [columns |-> filters[i].columns, op |-> filters[i].op, param |-> i]]

\* const whereClause = conditions.length > 0 ? `WHERE ${conditions.join(' AND ')}` : ''
WhereClause(filters) == Conditions(filters)

\* SELECT COUNT(*) FROM companies ${whereClause} with the filter values
CountQuery(params) ==
  [select |-> "COUNT(*)", from |-> "companies", where |-> Conditions(Filters(params)),
   orderBy |-> << >>, limit |-> 0, offset |-> 0,
   values |-> [i \in 1..Len(Filters(params)) |-> Filters(params)[i].value]]

\* variant: OFFSET page * limit
OffsetFromPage(page, limit) == page * limit

\* const offset = (page - 1) * limit
Offset(page, limit) == (page - 1) * limit

\* SELECT * FROM companies ${whereClause} ORDER BY ${safeSortBy} ${safeSortOrder}
\* LIMIT $${paramIndex} OFFSET $${paramIndex + 1} after values.push(limit, offset)
DataQuery(params) ==
  LET filters    == Filters(params)
      paramIndex == Len(filters) + 1
      page       == OrDefault(params.page, DefaultPage)
      limit      == OrDefault(params.limit, DefaultLimit)
  IN  [select |-> "*", from |-> "companies", where |-> WhereClause(filters),
       orderBy |-> <<SafeSortBy(IF params.sortBy = NoField THEN "ticker" ELSE params.sortBy),
                     SafeSortOrder(IF params.sortOrder = NoField THEN "asc"
                                   ELSE params.sortOrder)>>,
       limit |-> paramIndex, offset |-> paramIndex + 1,
       values |-> [i \in 1..Len(filters) |-> filters[i].value] \o <<limit, Offset(page, limit)>>]

\* ticker.toUpperCase()
TickerParam(ticker) == ToUpperCase(ticker)

\* SELECT * FROM companies WHERE ticker = $1 with [ticker.toUpperCase()]
FindByTickerQuery(ticker) ==
  [select |-> "*", from |-> "companies",
   where |-> <<[columns |-> <<"ticker">>, op |-> "=", param |-> 1]>>,
   orderBy |-> << >>, limit |-> 0, offset |-> 0, values |-> <<TickerParam(ticker)>>]

\* the names of the listed companies, ticker by ticker
ListedNames ==
  << <<"V", "i", "n", "g", "r", "o", "u", "p">>, <<"V", "i", "e", "t", "c", "o", "m">>,
     <<"H", "o", "a", " ", "P", "h", "a", "t">>, <<"F", "P", "T">> >>

\* what the pipeline writes for the i-th ticker
Listed(i) ==
  [ticker |-> TickerNames[i], nameVi |-> Str(ListedNames[i]),
   stockExchange |-> IF i % 2 = 1 THEN "HOSE" ELSE "HNX", analysisUpdated |-> NoDate,
   priceTimestamp |-> NoDate]

\* the characters of a column value
Chars(s) ==
  CHOOSE t \in {TickerTexts[i] : i \in 1..Len(TickerTexts)}
                 \cup {ListedNames[i] : i \in 1..Len(ListedNames)} : Str(t) = s

\* the value of a column of a row (name_en is not kept: NULL)
Column(row, name) ==
  IF name = "ticker" THEN row.ticker
  ELSE IF name = "name_vi" THEN row.nameVi
  ELSE IF name = "stock_exchange" THEN row.stockExchange
  ELSE SqlNull

\* text LIKE pattern: % is any run of characters, _ any one character
RECURSIVE Like(_, _)
Like(text, pattern) ==
  IF pattern = << >> THEN text = << >>
  ELSE IF Head(pattern) = "%"
  THEN Like(text, Tail(pattern)) \/ (text # << >> /\ Like(Tail(text), pattern))
  ELSE /\ text # << >>
       /\ Head(pattern) \in {"_", Head(text)}
       /\ Like(Tail(text), Tail(pattern))

\* the row satisfies a condition of the WHERE clause, given the bound values
Holds(row, condition, values) ==
  IF condition.op = "ILIKE"
  THEN \E k \in 1..Len(condition.columns) :
         /\ Column(row, condition.columns[k]) # SqlNull
         /\ Like(ToUpperCase(Chars(Column(row, condition.columns[k]))),
                 ToUpperCase(values[condition.param]))
  ELSE Column(row, condition.columns[1]) = Str(values[condition.param])

\* the rows a query selects
Selected(table, query) ==
  {row \in table : \A i \in 1..Len(query.where) : Holds(row, query.where[i], query.values)}

\* the decimal text of a count (COUNT(*) arrives as text)
Decimal(n) == IF n < 10 THEN <<Digits[n + 1]>> ELSE TwoDigits(n)

\* the pages the database can answer the data query with: LIMIT rows after OFFSET rows of
\* the selected ones, in the order its collation gives them
Pages(table, query) ==
  LET rows == Selected(table, query)
      left == Cardinality(rows) - query.values[query.offset]
      size == Min(query.values[query.limit], IF left < 0 THEN 0 ELSE left)
  IN  {page \in [1..size -> rows] : \A i, j \in 1..size : page[i] = page[j] => i = j}

\* Math.ceil(total / limit)
TotalPages(total, limit) ==
  IF total % limit = 0 THEN total \div limit ELSE (total \div limit) + 1

\* the arguments of the findByTicker calls
LookupTexts ==
  {<<"V", "I", "C">>, <<"v", "i", "c">>, <<"V", "c", "b">>, <<"H", "P", "G">>, <<"X", "X", "X">>}

\* the parameters of the findAll calls
FindAllParams ==
  {[page |-> page, limit |-> limit, search |-> search, exchange |-> exchange,
    sortBy |-> sort[1], sortOrder |-> sort[2]] :
     page \in {Undefined, 1, 2}, limit \in {Undefined, 1, 2},
     search \in {NoText, <<"v", "i">>}, exchange \in {NoText, <<"h", "o", "s", "e">>},
     sort \in {<<NoField, NoField>>, <<"market_cap", "desc">>, <<"updated_at", "asc">>,
               <<"ticker; DROP TABLE companies", "desc; --">>, <<"name", "DESC">>}}

\* what pool.query rejects with
QueryErrors == {"Database error", "connection terminated"}

\* the table holds the rows of VIC and VCB
InitRead ==
  /\ RunIdle
  /\ companies = {Inserted(QueryValues(Listed(1)), 0, 1), Inserted(QueryValues(Listed(2)), 0, 2)}
  /\ store = {row.ticker : row \in companies}
  /\ idSeq = 3
  /\ now = 0
  /\ calls = << >>
  /\ commits = << >>
  /\ summaries = << >>

ReadFrame ==
  UNCHANGED <<options, cfgMaxRetries, tickersToSync, pc, batchIndex, chunkIndex, slots,
              successCount, failedCount, totalSuccess, totalFailed, store, launched,
              chunkLog, upsertsOk, pauseLog, preludeVars, tableVars, requests, dbVars,
              loopIndex, asked>>

Finished == read.pc \in {"idle", "returned", "threw"}

\* findByTicker(ticker) is called: pool.query is awaited
CallFindByTicker(ticker) ==
  /\ Finished
  /\ read' = [NoRead EXCEPT !.method = "findByTicker", !.args = [ticker |-> ticker],
                            !.pc = "query", !.queries = <<FindByTickerQuery(ticker)>>]
  /\ ReadFrame

\* variant: catch (error) { return null }
CatchReturnsNull(call, error) == [call EXCEPT !.pc = "returned", !.result = NoRow]

\* catch (error) { logger.error(...); throw error }
CatchRethrows(call, error) == [call EXCEPT !.pc = "threw", !.thrown = error]

\* the query resolves: rows[0] mapped to a Company, or null when there are no rows
FindByTickerDone ==
  /\ read.pc = "query"
  /\ LET rows == Selected(companies, read.queries[1])
     IN  \/ rows = {} /\ read' = [read EXCEPT !.pc = "returned", !.result = NoRow]
         \/ \E row \in rows : read' = [read EXCEPT !.pc = "returned", !.result = row]
  /\ ReadFrame

\* findAll(params) is called: the count query is awaited
CallFindAll(params) ==
  /\ Finished
  /\ read' = [NoRead EXCEPT !.method = "findAll", !.args = params, !.pc = "count",
                            !.queries = <<CountQuery(params)>>]
  /\ ReadFrame

\* the count query resolves: total = parseInt(rows[0].count, 10), the data query is sent
CountDone ==
  /\ read.pc = "count"
  /\ read' = [read EXCEPT
                !.pc = "data",
                !.total = ParseInt(Decimal(Cardinality(Selected(companies, read.queries[1])))).n,
                !.queries = Append(@, DataQuery(read.args))]
  /\ ReadFrame

\* the data query resolves: findAll returns the mapped rows and the pagination
DataDone ==
  /\ read.pc = "data"
  /\ read.queries[2].values[read.queries[2].offset] >= 0
  /\ \E rows \in Pages(companies, read.queries[2]) :
       LET limit == OrDefault(read.args.limit, DefaultLimit)
       IN  read' = [read EXCEPT
                      !.pc = "returned",
                      !.result = [data |-> rows,
                                  pagination |-> [page |-> OrDefault(read.args.page, DefaultPage),
                                                  limit |-> limit, total |-> read.total,
                                                  totalPages |-> TotalPages(read.total, limit)]]]
  /\ ReadFrame

\* pool.query rejects: the method logs and rethrows
ReadFailed(error) ==
  /\ read.pc \in {"query", "count", "data"}
  /\ read' = CatchRethrows(read, error)
  /\ ReadFrame

\* the pipeline upserts the record of a listed company in the meantime
PipelineWrites(i) ==
  /\ Cardinality(companies \cup {row \in {Inserted(QueryValues(Listed(i)), now, idSeq)} :
                                   ConflictRows(companies, row) = {}}) <= MaxRows
  /\ companies' = Statement(companies, QueryValues(Listed(i)), now, idSeq)
  /\ companies' # companies
  /\ store' = {row.ticker : row \in companies'}
  /\ idSeq' = idSeq + 1
  /\ UNCHANGED <<now, calls, commits, summaries>>
  /\ RunUnchanged

NextRead ==
  \/ \E ticker \in LookupTexts : CallFindByTicker(ticker)
  \/ FindByTickerDone
  \/ \E params \in FindAllParams : CallFindAll(params)
  \/ CountDone
  \/ DataDone
  \/ \E error \in QueryErrors : ReadFailed(error)
  \/ \E i \in 1..Len(ListedNames) : PipelineWrites(i)

SpecRead == InitRead /\ [][NextRead]_vars

---------------------------------------------------------------------------
(* config/database.ts: the pool, testConnection and initializeDatabase, and the *)
(* client CompanyModel.upsert checks out, with many upsert calls at once.       *)
(* Upsert calls are counted, not told apart: all that matters here is whether a *)
(* call waits for a client or holds one.                                        *)

PoolMax == 20

MaxUpserts == 21
MaxTests == 1
MaxInits == 2

\* the statements initializeDatabase sends, in order
InitStatements ==
  <<"BEGIN", "CREATE TABLE", "CREATE INDEX", "CREATE FUNCTION", "CREATE TRIGGER", "COMMIT">>

\* the schema objects a statement of initializeDatabase leaves in place when it succeeds
Creates(statement) ==
  CASE statement = "CREATE TABLE"    -> {"companies"}
    [] statement = "CREATE INDEX"    -> {"indexes"}
    [] statement = "CREATE FUNCTION" -> {"update_updated_at_column"}
    [] statement = "CREATE TRIGGER"  -> {"update_companies_updated_at"}
    [] OTHER                         -> {}

\* CREATE TABLE IF NOT EXISTS companies: a new, empty table only where there is none
CreatesTable(objects) == "companies" \notin objects

\* the error of a statement when the connection is lost while it runs
ConnectionLost == "Connection terminated unexpectedly"

\* what makes a statement fail: the statement itself, or the connection
StatementErrors == {"permission denied for schema public", ConnectionLost}

\* the error of a query on a client whose connection is lost
NotQueryable == "Client has encountered a connection error and is not queryable"

\* pool.connect() hands out a client while fewer than max are checked out; otherwise the
\* request waits for a release
PoolHasClient == pool < PoolMax

\* client.release()
Release(call) == [call EXCEPT !.client = "released", !.releases = @ + 1]

\* the record every upsert call of this section writes
PoolCompany ==
  [ticker |-> TickerNames[1], nameVi |-> "Vingroup", stockExchange |-> NoField,
   analysisUpdated |-> NoDate, priceTimestamp |-> NoDate]

\* the store before or after its initialization, nobody at the pool
InitDb ==
  /\ ScriptIdle
  /\ pool = 0
  /\ upserts = [connect |-> 0, query |-> 0]
  /\ testConn = NoCall
  /\ initDb = NoCall
  /\ schema \in {{}, SchemaObjects}
  /\ companies \in IF schema = {} THEN {{}}
                    ELSE {{}, {Inserted(QueryValues(PoolCompany), 0, 1)}}
  /\ store = {row.ticker : row \in companies}
  /\ idSeq = Cardinality(companies) + 1
  /\ now = 0
  /\ calls = << >>
  /\ commits = << >>
  /\ summaries = << >>

DbFrame ==
  UNCHANGED <<options, cfgMaxRetries, tickersToSync, pc, batchIndex, chunkIndex, slots,
              successCount, failedCount, totalSuccess, totalFailed, launched, chunkLog,
              upsertsOk, pauseLog, preludeVars, now, calls, commits, summaries, apiVars,
              loopIndex, asked>>

\* testConnection() is called: pool.connect() is awaited (run() and the server's start-up
\* await testConnection and initializeDatabase one after the other)
CallTestConnection ==
  /\ testConn.pc \in {"idle", "returned"}
  /\ initDb.pc \in {"idle", "returned", "threw"}
  /\ testConn.n < MaxTests
  /\ testConn' = [NoCall EXCEPT !.pc = "connect", !.n = testConn.n + 1]
  /\ UNCHANGED <<pool, upserts, initDb, schema, companies, store, idSeq>>
  /\ DbFrame

\* pool.connect resolves: client.query('SELECT NOW()') is awaited
TestConnected ==
  /\ testConn.pc = "connect"
  /\ PoolHasClient
  /\ pool' = pool + 1
  /\ testConn' = [testConn EXCEPT !.pc = "query", !.client = "held",
                                  !.issued = <<"SELECT NOW()">>]
  /\ UNCHANGED <<upserts, initDb, schema, companies, store, idSeq>>
  /\ DbFrame

\* pool.connect rejects: the catch logs and returns false
TestConnectRejected ==
  /\ testConn.pc = "connect"
  /\ testConn' = [testConn EXCEPT !.pc = "returned", !.result = "false"]
  /\ UNCHANGED <<pool, upserts, initDb, schema, companies, store, idSeq>>
  /\ DbFrame

\* the query resolves: client.release(), return true
TestQueryOk ==
  /\ testConn.pc = "query"
  /\ pool' = pool - 1
  /\ testConn' = [Release(testConn) EXCEPT !.pc = "returned", !.result = "true"]
  /\ UNCHANGED <<upserts, initDb, schema, companies, store, idSeq>>
  /\ DbFrame

\* the query rejects: control leaves the try before client.release(); the catch logs and
\* returns false
TestQueryFailed ==
  /\ testConn.pc = "query"
  /\ testConn' = [testConn EXCEPT !.pc = "returned", !.result = "false"]
  /\ UNCHANGED <<pool, upserts, initDb, schema, companies, store, idSeq>>
  /\ DbFrame

\* initializeDatabase() is called: pool.connect() is awaited
CallInitializeDatabase ==
  /\ initDb.pc \in {"idle", "returned", "threw"}
  /\ testConn.pc \in {"idle", "returned"}
  /\ initDb.n < MaxInits
  /\ initDb' = [NoCall EXCEPT !.pc = "connect", !.n = initDb.n + 1]
  /\ UNCHANGED <<pool, upserts, testConn, schema, companies, store, idSeq>>
  /\ DbFrame

\* pool.connect resolves: the try block is entered, BEGIN is sent
InitConnected ==
  /\ initDb.pc = "connect"
  /\ PoolHasClient
  /\ pool' = pool + 1
  /\ initDb' = [initDb EXCEPT !.pc = "query", !.client = "held",
                              !.issued = <<InitStatements[1]>>]
  /\ UNCHANGED <<upserts, testConn, schema, companies, store, idSeq>>
  /\ DbFrame

\* pool.connect rejects, outside the try: initializeDatabase throws
InitConnectRejected ==
  /\ initDb.pc = "connect"
  /\ initDb' = [initDb EXCEPT !.pc = "threw", !.thrown = "timeout exceeded when trying to connect"]
  /\ UNCHANGED <<pool, upserts, testConn, schema, companies, store, idSeq>>
  /\ DbFrame

\* the statement awaited resolves: the next one is sent; after COMMIT the transaction's
\* objects are in place, the finally block releases the client and the call returns
InitStatementOk ==
  /\ initDb.pc = "query"
  /\ LET k == Len(initDb.issued)
         statement == initDb.issued[k]
     IN  IF statement = "COMMIT"
         THEN /\ schema' = schema \cup initDb.txn
              /\ companies' = IF initDb.fresh THEN {} ELSE companies
              /\ store' = {row.ticker : row \in companies'}
              /\ pool' = pool - 1
              /\ initDb' = [Release(initDb) EXCEPT !.pc = "returned", !.txn = {}]
         ELSE /\ initDb' = [initDb EXCEPT
                              !.txn = @ \cup Creates(statement),
                              !.fresh = @ \/ (statement = "CREATE TABLE" /\ CreatesTable(schema)),
                              !.issued = Append(@, InitStatements[k + 1])]
              /\ UNCHANGED <<pool, schema, companies, store>>
  /\ UNCHANGED <<upserts, testConn, idSeq>>
  /\ DbFrame

\* the statement awaited rejects: the catch sends ROLLBACK
InitStatementFailed(error) ==
  /\ initDb.pc = "query"
  /\ initDb' = [initDb EXCEPT !.pc = "rollback", !.caught = error,
                              !.issued = Append(@, "ROLLBACK")]
  /\ UNCHANGED <<pool, upserts, testConn, schema, companies, store, idSeq>>
  /\ DbFrame

\* ROLLBACK resolves: the catch logs and throws the error it caught, finally releases
InitRollbackOk ==
  /\ initDb.pc = "rollback"
  /\ initDb.caught # ConnectionLost
  /\ pool' = pool - 1
  /\ initDb' = [Release(initDb) EXCEPT !.pc = "threw", !.thrown = initDb.caught, !.txn = {},
                                       !.fresh = FALSE]
  /\ UNCHANGED <<upserts, testConn, schema, companies, store, idSeq>>
  /\ DbFrame

\* ROLLBACK rejects (the connection is lost; the server drops the transaction): the await
\* in the catch throws ROLLBACK's error, finally releases
InitRollbackFailed ==
  /\ initDb.pc = "rollback"
  /\ initDb.caught = ConnectionLost
  /\ pool' = pool - 1
  /\ initDb' = [Release(initDb) EXCEPT !.pc = "threw", !.thrown = NotQueryable, !.txn = {},
                                       !.fresh = FALSE]
  /\ UNCHANGED <<upserts, testConn, schema, companies, store, idSeq>>
  /\ DbFrame

\* upsert(companyData) is called: pool.connect() is awaited
UpsertCalled ==
  /\ upserts.connect + upserts.query < MaxUpserts
  /\ upserts' = [upserts EXCEPT !.connect = @ + 1]
  /\ UNCHANGED <<pool, testConn, initDb, schema, companies, store, idSeq>>
  /\ DbFrame

\* pool.connect resolves for one of the waiting upsert calls: its statement is sent
UpsertGotClient ==
  /\ upserts.connect > 0
  /\ PoolHasClient
  /\ pool' = pool + 1
  /\ upserts' = [upserts EXCEPT !.connect = @ - 1, !.query = @ + 1]
  /\ UNCHANGED <<testConn, initDb, schema, companies, store, idSeq>>
  /\ DbFrame

\* pool.connect rejects (no server, or no client within connectionTimeoutMillis), outside
\* the try: upsert throws
UpsertNoClient ==
  /\ upserts.connect > 0
  /\ upserts' = [upserts EXCEPT !.connect = @ - 1]
  /\ UNCHANGED <<pool, testConn, initDb, schema, companies, store, idSeq>>
  /\ DbFrame

\* the statement of an upsert call resolves: the row is written, finally releases the client
UpsertStatementOk ==
  /\ upserts.query > 0
  /\ "companies" \in schema
  /\ idSeq <= MaxRows
  /\ companies' = Statement(companies, QueryValues(PoolCompany), now, idSeq)
  /\ store' = {row.ticker : row \in companies'}
  /\ idSeq' = idSeq + 1
  /\ pool' = pool - 1
  /\ upserts' = [upserts EXCEPT !.query = @ - 1]
  /\ UNCHANGED <<testConn, initDb, schema>>
  /\ DbFrame

\* the statement of an upsert call rejects: the catch logs and rethrows, finally releases
UpsertStatementFailed ==
  /\ upserts.query > 0
  /\ pool' = pool - 1
  /\ upserts' = [upserts EXCEPT !.query = @ - 1]
  /\ UNCHANGED <<testConn, initDb, schema, companies, store, idSeq>>
  /\ DbFrame

NextDb ==
  \/ CallTestConnection
  \/ TestConnected
  \/ TestConnectRejected
  \/ TestQueryOk
  \/ TestQueryFailed
  \/ CallInitializeDatabase
  \/ InitConnected
  \/ InitConnectRejected
  \/ InitStatementOk
  \/ \E error \in StatementErrors : InitStatementFailed(error)
  \/ InitRollbackOk
  \/ InitRollbackFailed
  \/ UpsertCalled
  \/ UpsertGotClient
  \/ UpsertNoClient
  \/ UpsertStatementOk
  \/ UpsertStatementFailed

SpecDb == InitDb /\ [][NextDb]_vars

---------------------------------------------------------------------------
(* Properties of the scheduler, syncWithWorkers *)

CeilDiv(a, b) == (a + b - 1) \div b

SlotIds == 1..Len(slots)

\* the promises whose fetch or upsert is still in flight
InFlight == {i \in SlotIds : slots[i].pc \notin {"settled", "rejected"}}

\* syncWithWorkers has returned for the current batch
BatchReturned == pc \in {"batchPause", "done"} /\ Len(tickersToSync) > 0

\* some handler of the scheduler or of one of its promises can run
SchedulerStep ==
  \/ RunStart
  \/ JoinChunk
  \/ ChunkPauseElapsed
  \/ BatchPauseElapsed
  \/ \E s \in 1..Len(slots) :
       \/ ResponseOk(s)
       \/ ResponseEmpty(s)
       \/ RequestError(s)
       \/ DelayElapsed(s)
       \/ BackoffElapsed(s)
       \/ Connected(s)
       \/ ConnectFailed(s)
       \/ QueryOk(s)
       \/ QueryFailed(s)

\* C1: syncWithWorkers cuts its list L into ceil(|L|/c) consecutive chunks of size c, the
\* last one possibly smaller, and returns success + failed = |L| whatever the outcomes;
\* 10 identifiers with c = 3 run the chunks 3,3,3,1 and count 10.
C1_ChunksAndCounts ==
  Len(tickersToSync) > 0 =>
    /\ Len(chunkLog) <= CeilDiv(Len(Batch), Concurrency)
    /\ \A j \in 1..Len(chunkLog) :
         chunkLog[j] = IF j < CeilDiv(Len(Batch), Concurrency)
                       THEN Concurrency
                       ELSE Len(Batch) - (j - 1) * Concurrency
    /\ pc = "join" =>
         /\ Len(slots) = chunkLog[chunkIndex + 1]
         /\ \A i \in SlotIds : slots[i].ticker = Batch[chunkIndex * Concurrency + i]
    /\ BatchReturned =>
         /\ Len(chunkLog) = CeilDiv(Len(Batch), Concurrency)
         /\ successCount + failedCount = Len(Batch)
    /\ (pc = "done" /\ Len(tickersToSync) = 10 /\ options.workers = 3
          /\ options.batchSize = 0) =>
         /\ chunkLog = <<3, 3, 3, 1>>
         /\ successCount + failedCount = 10

C1_Witness ==
  /\ pc = "done"
  /\ chunkLog = <<3, 3, 3, 1>>
  /\ successCount = 6
  /\ failedCount = 4

\* C2: chunk barrier: the run leaves the join of a chunk only when every promise of the
\* chunk has settled, a chunk is started only when nothing is in flight, and the chunks
\* take the identifiers in list order.
C2_ChunkBarrier ==
  [][ /\ (pc = "join" /\ pc' # "join") => \A i \in SlotIds : slots[i].pc = "settled"
      /\ (launched' # launched) =>
           /\ InFlight = {}
           /\ launched' = launched + Len(slots')
           /\ \A i \in 1..Len(slots') : slots'[i].ticker = tickersToSync[launched + i]
    ]_vars

C2_Witness ==
  /\ pc = "join"
  /\ chunkIndex = 1
  /\ successCount + failedCount = Concurrency
  /\ \E i \in SlotIds : slots[i].pc = "request"
  /\ \E i \in SlotIds : slots[i].pc = "settled"

\* C3: at every moment at most `workers` identifiers (128 when workers is not given) have
\* a fetch or an upsert in flight, in every chunk of every batch.
C3_BoundedInFlight ==
  /\ options.workers # 0 => Cardinality(InFlight) <= options.workers
  /\ options.workers = 0 => Cardinality(InFlight) <= DefaultWorkers
  /\ pc # "join" => InFlight = {}

C3_Witness ==
  /\ batchIndex = 1
  /\ options.workers = 2
  /\ Cardinality(InFlight) = 2
  /\ \E i \in SlotIds : slots[i].pc = "query"

\* C4: a failure of one identifier (attempts exhausted, request error, upsert throwing)
\* rejects no promise and makes neither syncWithWorkers nor run() throw (run() throws only
\* before the first identifier is scheduled); the run goes on until every identifier has
\* been fetched and every fetched record handed to upsert.
C4_FailureIsolation ==
  /\ pc = "threw" => launched = 0
  /\ \A i \in SlotIds : slots[i].pc # "rejected"
  /\ pc \in {"filtered", "join", "chunkPause", "batchPause"} => ENABLED SchedulerStep
  /\ pc = "done" =>
       /\ launched = Len(tickersToSync)
       /\ totalSuccess + totalFailed = Len(tickersToSync)

C4_Witness ==
  /\ failedCount >= 1
  /\ \E i, j \in SlotIds :
       /\ slots[i].pc = "settled"
       /\ slots[i].value = ChunkValue(FALSE, StoreErrorMsg)
       /\ slots[j].pc = "query"

\* C5: persist as you go: a record is handed to upsert in the very step its own fetch
\* returns, whatever the other fetches of the chunk are doing, and every record whose upsert
\* returned is in the store, also while the chunk is still in progress.
C5_PersistAsYouGo ==
  \A i \in SlotIds :
    /\ (slots[i].result.kind = "result" /\ slots[i].result.success) =>
         slots[i].pc \in {"connect", "query", "settled"}
    /\ (slots[i].value.kind = "value" /\ slots[i].value.success) =>
         /\ slots[i].result.kind = "result"
         /\ slots[i].result.data \in store

C5_Witness ==
  \E i, j \in SlotIds :
    /\ slots[i].value = ChunkValue(TRUE, "")
    /\ slots[i].ticker = TickerNames[2]
    /\ TickerNames[2] \in store
    /\ slots[j].pc = "request"
    /\ slots[j].reqs = 1

---------------------------------------------------------------------------
(* Properties of fetchWithRetry *)

\* the promises whose fetchWithRetry call is over
Fetched == {i \in SlotIds : slots[i].pc \in {"connect", "query", "settled"}}

\* min(1000 * 2^(n-1), 5000): 1000, 2000, 4000, 5000, 5000, ...
ClaimedDelay(n) ==
  CASE n = 1 -> 1000
    [] n = 2 -> 2000
    [] n = 3 -> 4000
    [] OTHER -> 5000

ClaimedWaits(n) == [j \in 1..n |-> [timer |-> "backoff", ms |-> ClaimedDelay(j)]]

\* C6: when the first request of fetchWithRetry(I, k) yields a well-formed payload, the
\* call returns success with attempts = 1 after that single request and without any wait.
C6_FirstAttemptSuccess ==
  \A i \in SlotIds :
    slots[i].firstKind = "ok" =>
      /\ i \in Fetched
      /\ slots[i].result.kind = "result"
      /\ slots[i].result.success
      /\ slots[i].result.attempts = 1
      /\ slots[i].reqs = 1
      /\ slots[i].waits = << >>

C6_Witness ==
  \E i \in SlotIds :
    /\ slots[i].firstKind = "ok"
    /\ options.maxRetries = MaxAttempts
    /\ cfgMaxRetries = MaxCfgRetries
    /\ slots[i].value = ChunkValue(TRUE, "")

\* C7: when every payload is empty, fetchWithRetry(I, k) makes exactly k attempts, one
\* after the other, waits min(1000 * 2^(n-1), 5000) ms between attempt n and attempt n+1,
\* waits for nothing after attempt k and returns failure with attempts = k.
C7_AlwaysEmpty ==
  \A i \in SlotIds :
    (slots[i].allEmpty /\ MaxRetries >= 1) =>
      /\ slots[i].attempt <= MaxRetries
      /\ slots[i].pc = "request" =>
           /\ slots[i].reqs = slots[i].attempt
           /\ slots[i].waits = ClaimedWaits(slots[i].attempt - 1)
      /\ slots[i].pc = "backoff" =>
           /\ slots[i].reqs = slots[i].attempt
           /\ slots[i].attempt < MaxRetries
           /\ slots[i].waits = ClaimedWaits(slots[i].attempt)
      /\ slots[i].pc \notin {"request", "backoff"} =>
           /\ slots[i].pc = "settled"
           /\ slots[i].result.kind = "result"
           /\ ~slots[i].result.success
           /\ slots[i].result.attempts = MaxRetries
           /\ slots[i].reqs = MaxRetries
           /\ slots[i].waits = ClaimedWaits(MaxRetries - 1)

C7_Witness ==
  \E i \in SlotIds :
    /\ slots[i].allEmpty
    /\ slots[i].pc = "settled"
    /\ slots[i].result.attempts = 5
    /\ slots[i].reqs = 5
    /\ Len(slots[i].waits) = 4
    /\ slots[i].waits[4].ms = 5000

\* C8: every attempt of fetchWithRetry issues exactly one external request, so that
\* fetchWithRetry(I, k) issues at most k requests for I.
C8_OneRequestPerAttempt ==
  \A i \in SlotIds :
    /\ slots[i].reqs <= MaxRetries
    /\ slots[i].pc = "request" => slots[i].reqs = slots[i].attempt

\* C9: fetchWithRetry never throws: whatever the source does, the call ends with a result
\* that is a success with a record or a failure with an error description (the
\* description is the empty lastError only when maxRetries < 1 allowed no attempt).
C9_NeverThrows ==
  \A i \in SlotIds :
    /\ slots[i].result # Thrown
    /\ i \in Fetched =>
         /\ slots[i].result.kind = "result"
         /\ slots[i].result.success =>
              (slots[i].result.data # NoData /\ slots[i].result.error = "")
         /\ ~slots[i].result.success =>
              /\ slots[i].result.data = NoData
              /\ slots[i].result.error \in {NoDataMsg, RequestErrorMsg, "Unknown error", ""}
              /\ slots[i].result.error = "" <=> MaxRetries < 1

C9_Witness ==
  \E i \in SlotIds :
    /\ slots[i].pc = "settled"
    /\ slots[i].firstKind = "empty"
    /\ slots[i].lastKind = "error"
    /\ slots[i].result.kind = "result"
    /\ ~slots[i].result.success
    /\ slots[i].result.attempts = 3

\* C10: a failure of fetchWithRetry carries the reason seen on the last attempt (the
\* request error's message after a request error, the no-data reason after an empty
\* payload) and the number of attempts consumed.
C10_LastReason ==
  \A i \in SlotIds :
    (slots[i].result.kind = "result" /\ ~slots[i].result.success /\ MaxRetries >= 1) =>
      /\ slots[i].result.attempts = slots[i].attempt
      /\ slots[i].lastKind = "error" => slots[i].result.error = RequestErrorMsg
      /\ slots[i].lastKind = "empty" => slots[i].result.error = NoDataMsg

---------------------------------------------------------------------------
(* Properties of CompanyModel.upsert *)

CallIds == 1..Len(calls)

UpsertTickers == {companyData.ticker : companyData \in CompanyData}

RowsOf(ticker) == {row \in companies : row.ticker = ticker}

\* the calls for `ticker` that have committed
CommittedFor(ticker) == {commits[k] : k \in {n \in 1..Len(commits) :
                                               calls[commits[n]].data.ticker = ticker}}

\* the table held a row (of ticker VIC) before the first call
HadRow == idSeq - Len(commits) > 1

\* the tickers upserted so far, by these calls or before them
Upserted ==
  {ticker \in UpsertTickers : CommittedFor(ticker) # {} \/ (HadRow /\ ticker = TickerNames[1])}

\* call j was made after call i had returned, for the same ticker
Twice(i, j) ==
  /\ calls[i].pc = "returned"
  /\ calls[j].pc = "returned"
  /\ i \in calls[j].after
  /\ calls[i].data.ticker = calls[j].data.ticker

\* the mapped columns of `row` hold the values of `companyData`, absent ones as NULL
HoldsValues(row, companyData) ==
  /\ row.ticker = companyData.ticker
  /\ row.nameVi = (IF companyData.nameVi = NoField THEN SqlNull ELSE companyData.nameVi)
  /\ row.stockExchange =
       (IF companyData.stockExchange = NoField THEN SqlNull ELSE companyData.stockExchange)
  /\ companyData.analysisUpdated = NoDate => row.analysisUpdated = SqlNull
  /\ companyData.priceTimestamp = NoDate => row.priceTimestamp = SqlNull

\* C11: upsert is keyed by ticker: the table holds exactly one row for every ticker
\* upserted and none for the others; when the same ticker is upserted twice, the second
\* call after the first returned, the row of the second call holds the second call's
\* values, its updatedAt is not earlier than the one the first call left, and its id and
\* createdAt are those the first call returned.
C11_UpsertKeyedByTicker ==
  /\ \A ticker \in UpsertTickers :
       Cardinality(RowsOf(ticker)) = IF ticker \in Upserted THEN 1 ELSE 0
  /\ \A i, j \in CallIds :
       Twice(i, j) =>
         /\ HoldsValues(calls[j].row, calls[j].data)
         /\ calls[j].row.updatedAt >= calls[i].row.updatedAt
         /\ calls[j].row.createdAt = calls[i].row.createdAt
         /\ calls[j].row.id = calls[i].row.id
         /\ commits[Len(commits)] = j => RowsOf(calls[j].data.ticker) = {calls[j].row}

C11_Witness ==
  /\ Len(calls) = 2
  /\ Twice(1, 2)
  /\ calls[1].data # calls[2].data
  /\ calls[1].data.ticker = TickerNames[2]
  /\ calls[2].row.updatedAt > calls[1].row.updatedAt
  /\ calls[2].row.createdAt = 0
  /\ companies = {calls[2].row}

\* C12: last write wins, no merge: when the statement of upsert(r) commits on an existing
\* row, that row keeps its id and createdAt and every mapped column takes r's value, NULL
\* for a field r does not have whatever the row held before; no other row changes.
C12_LastWriteWins ==
  [][\A c \in CallIds :
       (calls[c].pc = "query" /\ calls'[c].pc = "returned") =>
         \A old \in RowsOf(calls[c].data.ticker) :
           \E new \in companies' :
             /\ new.id = old.id
             /\ new.createdAt = old.createdAt
             /\ HoldsValues(new, calls[c].data)
             /\ companies' = (companies \ {old}) \cup {new}
    ]_vars

C12_Witness ==
  /\ HadRow
  /\ Len(commits) = 1
  /\ calls[commits[1]].data.nameVi = NoField
  /\ \E row \in companies :
       /\ row.ticker = TickerNames[1]
       /\ row.id = 1
       /\ row.nameVi = SqlNull
       /\ row.stockExchange = "HOSE"
       /\ row.updatedAt > row.createdAt

\* the call for `ticker` that committed last
LastCommitFor(ticker) ==
  commits[CHOOSE k \in 1..Len(commits) :
            /\ calls[commits[k]].data.ticker = ticker
            /\ \A n \in (k + 1)..Len(commits) : calls[commits[n]].data.ticker # ticker]

\* C13: whatever the interleaving of concurrent upsert calls, every ticker upserted has
\* exactly one row and that row holds, in every mapped column, the values of the call for
\* that ticker that committed last (calls for other tickers leave it alone, and it is never
\* a mix of two calls); every call returns a row holding its own values.
C13_ConcurrentUpserts ==
  /\ \A ticker \in UpsertTickers :
       CommittedFor(ticker) # {} =>
         \E row \in companies :
           /\ RowsOf(ticker) = {row}
           /\ HoldsValues(row, calls[LastCommitFor(ticker)].data)
  /\ \A c \in CallIds :
       calls[c].pc = "returned" => HoldsValues(calls[c].row, calls[c].data)

C13_Witness ==
  /\ Len(calls) = 2
  /\ calls[2].after = {}
  /\ commits = <<2, 1>>
  /\ calls[1].data.ticker = calls[2].data.ticker
  /\ calls[1].data # calls[2].data
  /\ \E row \in companies : HoldsValues(row, calls[1].data)

---------------------------------------------------------------------------
(* Properties of run(): upsert failures, filterTickers, fatal errors *)

\* the successes the scheduler has counted or is about to count at the join
CountedSuccess ==
  IF pc \in {"join", "chunkPause"}
  THEN totalSuccess + successCount + Tally(slots, TRUE)
  ELSE totalSuccess

\* the fetch of the promise succeeded and upsert threw
UpsertFailed(slot) ==
  /\ slot.result.kind = "result"
  /\ slot.result.success
  /\ slot.value.kind = "value"
  /\ ~slot.value.success

\* C14: when upsert throws for an identifier whose fetch succeeded, the promise settles
\* as a failure and stays so (no further request, no second upsert), the join counts it
\* in failedCount, no identifier scheduled before is scheduled again, the run goes on,
\* and the successes counted are exactly the upsert calls that returned.
C14_UpsertFailureCounted ==
  [][ /\ CountedSuccess' = upsertsOk'
      /\ \A i \in SlotIds :
           UpsertFailed(slots[i]) =>
             /\ slots[i].pc = "settled"
             /\ slots[i].value.error = StoreErrorMsg
             /\ slots' # << >> => slots'[i] = slots[i]
             /\ slots' = << >> =>
                  /\ pc' \in {"chunkPause", "batchPause", "done"}
                  /\ failedCount' = failedCount + Tally(slots, FALSE)
                  /\ successCount' = successCount + Tally(slots, TRUE)
      /\ launched' # launched =>
           \A i \in 1..Len(slots') : \A j \in 1..launched :
             slots'[i].ticker # tickersToSync[j]
      /\ pc' = "done" => totalSuccess' = upsertsOk'
    ]_vars

C14_Witness ==
  /\ chunkIndex = 1
  /\ upsertsOk = 1
  /\ successCount = 0
  /\ failedCount = 2
  /\ \E i, j \in SlotIds :
       /\ UpsertFailed(slots[i])
       /\ slots[i].reqs = 1
       /\ slots[j].value = ChunkValue(TRUE, "")

\* filterTickers has returned to run()
Filtered == pc \in {"filtered", "join", "chunkPause", "batchPause", "done"}

\* only --start and --end are given
RangeOnly ==
  /\ options.startIndex # Undefined
  /\ options.endIndex # Undefined
  /\ options.specificTickers = << >>
  /\ ~options.skipExisting

\* the elements of `list` at the 0-based positions start .. end - 1
Positions(list, start, end) == [i \in 1..(end - start) |-> list[start + i]]

\* C15: with only the range given and 0 <= start <= end <= n, filterTickers returns the
\* elements of the universe at positions [start, end) in their order, also for end = 0.
C15_RangeFilter ==
  (/\ Filtered
   /\ RangeOnly
   /\ 0 <= options.startIndex
   /\ options.startIndex <= options.endIndex
   /\ options.endIndex <= Len(allTickers)) =>
     tickersToSync = Positions(allTickers, options.startIndex, options.endIndex)

\* C16: with skipExisting, filterTickers asks the store once for every candidate and
\* returns the candidates that have no row, in their order, dropping exactly those that
\* have one; without skipExisting findByTicker is never called.
C16_SkipExisting ==
  /\ ~options.skipExisting => queried = << >>
  /\ (options.skipExisting /\ pc = "filtered") =>
       /\ queried = filteredTickers
       /\ tickersToSync = SelectSeq(filteredTickers, LAMBDA t : t \notin store)
       /\ \A i \in 1..Len(filteredTickers) :
            Includes(tickersToSync, filteredTickers[i]) <=> filteredTickers[i] \notin store

C16_Witness ==
  /\ pc = "filtered"
  /\ options.skipExisting
  /\ store = {TickerNames[1]}
  /\ filteredTickers = <<TickerNames[1], TickerNames[2], TickerNames[3]>>
  /\ tickersToSync = <<TickerNames[2], TickerNames[3]>>

\* position p (0-based) of the universe lies in the range given
InClaimedRange(p) ==
  /\ options.startIndex # Undefined => options.startIndex <= p
  /\ options.endIndex # Undefined => p < options.endIndex

\* `ticker` equals an entry of --tickers once that entry is upper-cased and trimmed
InClaimedSubset(ticker) ==
  \/ options.specificTickers = << >>
  \/ \E j \in 1..Len(options.specificTickers) :
       Str(Trim(ToUpperCase(options.specificTickers[j]))) = ticker

\* the universe restricted to the range of positions, then to the subset
Survivors ==
  SelectSeq(allTickers,
            LAMBDA t : /\ InClaimedSubset(t)
                       /\ \E p \in 0..(Len(allTickers) - 1) :
                            allTickers[p + 1] = t /\ InClaimedRange(p))

\* `sub` takes elements of `list` in the order of `list`
RECURSIVE IsSubsequence(_, _)
IsSubsequence(sub, list) ==
  IF sub = << >> THEN TRUE
  ELSE IF list = << >> THEN FALSE
  ELSE IF Head(sub) = Head(list) THEN IsSubsequence(Tail(sub), Tail(list))
  ELSE IsSubsequence(sub, Tail(list))

\* C17: filterTickers filters by range, then subset, then existence: the range counts
\* positions of the whole universe, the subset is compared upper-cased and trimmed, the
\* store is asked only about identifiers left by the first two filters, and the result
\* is a subsequence of the universe.  (An end index of 0 is the case of C15; for it only
\* the subset, the existence check and the order are stated here.)
C17_FilterOrder ==
  /\ \A i \in 1..Len(queried) : InClaimedSubset(queried[i])
  /\ \A i \in 1..Len(tickersToSync) : InClaimedSubset(tickersToSync[i])
  /\ IsSubsequence(queried, allTickers)
  /\ IsSubsequence(tickersToSync, allTickers)
  /\ (options.endIndex # 0 /\ pc \in {"findByTicker", "filtered"}) =>
       /\ filteredTickers = Survivors
       /\ queried = SubSeq(Survivors, 1, Len(queried))
       /\ pc = "filtered" =>
            tickersToSync = SelectSeq(Survivors,
                                      LAMBDA t : ~options.skipExisting \/ t \notin store)

C17_Witness ==
  /\ pc = "filtered"
  /\ allTickers = <<TickerNames[1], TickerNames[2], TickerNames[3]>>
  /\ options.startIndex = 0
  /\ options.endIndex = 2
  /\ Len(options.specificTickers) = 2
  /\ InClaimedSubset(TickerNames[3])
  /\ options.skipExisting
  /\ queried = <<TickerNames[1]>>
  /\ store = {}
  /\ tickersToSync = <<TickerNames[1]>>

\* the universe is not loaded: nothing is filtered, scheduled, fetched or upserted
NothingDone ==
  /\ allTickers = << >>
  /\ filteredTickers = << >>
  /\ tickersToSync = << >>
  /\ queried = << >>
  /\ launched = 0
  /\ slots = << >>
  /\ upsertsOk = 0

\* C18: when tickers.json is missing, unparsable or not an array, run() throws as soon
\* as it comes to load the universe, and no identifier is filtered, scheduled, fetched
\* through fetchWithRetry or upserted.
C18_BrokenUniverse ==
  [][tickersFile.kind # "array" =>
       /\ pc = "healthCheck" => (pc' = "threw" /\ runError' = LoadTickersMessage(tickersFile))
       /\ pc' \in {"testConnection", "initializeDatabase", "healthCheck", "threw"}
       /\ NothingDone'
    ]_vars

C18_Witness ==
  /\ tickersFile.kind = "notArray"
  /\ dbConnected = "true"
  /\ pc = "threw"
  /\ runError = "File tickers.json must contain an array"

\* C19: when testConnection returns false or initializeDatabase throws, run() throws
\* before the universe is loaded: no identifier is fetched and no upsert is attempted.
C19_StoreUnreachable ==
  /\ dbConnected = "false" => (pc = "threw" /\ runError = ConnectErrorMsg /\ NothingDone)
  /\ (pc = "threw" /\ runError = StoreErrorMsg /\ queried = << >>) => NothingDone
  /\ pc \in {"testConnection", "initializeDatabase"} => NothingDone

C19_Witness ==
  /\ dbConnected = "false"
  /\ pc = "threw"
  /\ Len(tickersFile.items) = 10
  /\ allTickers = << >>

\* C20: run() throws only when the universe cannot be loaded or the store cannot be
\* connected to or initialised; every failure after the universe is loaded (also a store
\* error during the existence checks of skipExisting) is absorbed, and run() completes
\* with every item counted.
C20_OnlyFatalErrors ==
  /\ pc = "threw" =>
       \/ dbConnected = "false"
       \/ LoadTickersThrows(tickersFile)
       \/ (dbConnected = "true" /\ runError = StoreErrorMsg /\ queried = << >>)
  /\ pc = "done" => totalSuccess + totalFailed = Len(tickersToSync)

---------------------------------------------------------------------------
(* Properties of run(): batches, pauses, totals *)

\* the number of identifiers run() schedules
Total == Len(tickersToSync)

\* the batch size the run works with: batchSize, or the whole list when it is not given
ClaimedBatchSize == IF options.batchSize = 0 THEN Total ELSE options.batchSize

NumBatches == IF Total = 0 THEN 0 ELSE CeilDiv(Total, ClaimedBatchSize)

\* 0-based positions in the filtered list of the first identifier of batch b and of the
\* first identifier after it
BatchFrom(b) == b * ClaimedBatchSize

BatchTo(b) == Min((b + 1) * ClaimedBatchSize, Total)

\* the pauses of the given kind awaited so far
PausesOf(timer) == SelectSeq(pauseLog, LAMBDA p : p.timer = timer)

\* the scheduler is working on a batch or run() is pausing after one
InBatches == pc \in {"join", "chunkPause", "batchPause"}

\* the state of the batches: batch b holds the positions BatchFrom(b) .. BatchTo(b) - 1
BatchesInOrder ==
  /\ InBatches => batchIndex < NumBatches
  /\ pc = "join" =>
       /\ launched = BatchFrom(batchIndex) + chunkIndex * Concurrency + Len(slots)
       /\ launched <= BatchTo(batchIndex)
       /\ \A i \in SlotIds : slots[i].ticker = tickersToSync[launched - Len(slots) + i]
  /\ pc = "batchPause" =>
       /\ batchIndex < NumBatches - 1
       /\ launched = BatchTo(batchIndex)
       /\ pauseLog[Len(pauseLog)] = [timer |-> "batch", ms |-> 5000, batch |-> batchIndex]
  /\ InBatches \/ pc = "done" =>
       /\ \A k \in 1..Len(PausesOf("batch")) :
            PausesOf("batch")[k] = [timer |-> "batch", ms |-> 5000, batch |-> k - 1]
       /\ Len(PausesOf("batch")) = IF pc = "batchPause" THEN batchIndex + 1 ELSE batchIndex
  /\ (pc = "done" /\ Total > 0) =>
       /\ batchIndex = NumBatches - 1
       /\ launched = Total
       /\ Len(PausesOf("batch")) = NumBatches - 1

\* C21: run() cuts the filtered list into consecutive batches of batchSize (the last one
\* possibly smaller, one batch of the whole list when batchSize is not given) and works
\* on them one after the other: the scheduler is called for batch i+1 only after it
\* returned for batch i and a pause of 5000 ms has elapsed, and the last batch is
\* followed by no pause.
C21_SequentialBatches ==
  [][ /\ BatchesInOrder'
      /\ pc' = "batchPause" =>
           /\ pc = "join"
           /\ AllSettled(slots)
           /\ slots' = << >>
      /\ batchIndex' # batchIndex =>
           /\ pc = "batchPause"
           /\ slots = << >>
           /\ batchIndex' = batchIndex + 1
           /\ launched = BatchFrom(batchIndex')
           /\ chunkIndex' = 0
           /\ successCount' = 0
           /\ failedCount' = 0
    ]_vars

C21_Witness ==
  /\ pc = "done"
  /\ Total = 3
  /\ options.batchSize = 2
  /\ options.workers = 1
  /\ batchIndex = 1
  /\ launched = 3
  /\ pauseLog = <<[timer |-> "chunk", ms |-> 1000, batch |-> 0],
                  [timer |-> "batch", ms |-> 5000, batch |-> 0]>>

\* the pauses between chunks awaited by the call of syncWithWorkers for batch b
ChunkPausesIn(b) == SelectSeq(pauseLog, LAMBDA p : p.timer = "chunk" /\ p.batch = b)

\* the number of chunks of batch b
NumChunks(b) == CeilDiv(BatchTo(b) - BatchFrom(b), Concurrency)

\* C22: syncWithWorkers pauses 1000 ms after each chunk but the last of the call: the
\* pause starts at the join, once the chunk's results are tallied, and the next chunk's
\* fetches start only when it has elapsed; a call with m chunks has awaited m-1 pauses
\* when it returns, and the pause is the same whatever the chunk's outcomes.
C22_ChunkPauses ==
  [][ /\ \A k \in 1..Len(pauseLog') :
           pauseLog'[k].timer = "chunk" => pauseLog'[k].ms = 1000
      /\ pc' = "join" => Len(ChunkPausesIn(batchIndex)') = chunkIndex'
      /\ pc' = "chunkPause" =>
           /\ pc = "join"
           /\ AllSettled(slots)
           /\ successCount' = successCount + Tally(slots, TRUE)
           /\ failedCount' = failedCount + Tally(slots, FALSE)
           /\ slots' = << >>
           /\ chunkIndex < NumChunks(batchIndex) - 1
           /\ pauseLog' = Append(pauseLog, [timer |-> "chunk", ms |-> 1000,
                                            batch |-> batchIndex])
      /\ (pc = "join" /\ pc' \in {"batchPause", "done"}) =>
           /\ chunkIndex = NumChunks(batchIndex) - 1
           /\ Len(ChunkPausesIn(batchIndex)) = NumChunks(batchIndex) - 1
           /\ ChunkPausesIn(batchIndex)' = ChunkPausesIn(batchIndex)
      /\ (launched' # launched /\ chunkIndex' # 0) =>
           /\ pc = "chunkPause"
           /\ chunkIndex' = chunkIndex + 1
           /\ batchIndex' = batchIndex
    ]_vars

C22_Witness ==
  /\ pc = "done"
  /\ Total = 10
  /\ chunkLog = <<3, 3, 3, 1>>
  /\ Len(pauseLog) = 3
  /\ successCount = 0
  /\ failedCount = 10

\* syncWithWorkers returns to run() in this step
BatchReturns == pc = "join" /\ pc' \in {"batchPause", "done"}

\* the run of ["VIC", "BADTICKER"] with two attempts has come to its join: VIC's first
\* payload was valid and its upsert did not throw, every payload of BADTICKER was empty
BadTickerRun ==
  /\ pc = "join"
  /\ tickersToSync = <<"VIC", "BADTICKER">>
  /\ options.maxRetries = 2
  /\ Len(slots) = 2
  /\ AllSettled(slots)
  /\ slots[1].firstKind = "ok"
  /\ slots[1].value.error # StoreErrorMsg
  /\ slots[2].allEmpty

\* C23: the totals of run() are the sums of the counts syncWithWorkers returned for the
\* batches, and totalSuccess + totalFailed is the number of filtered identifiers when
\* run() completes; for the universe [VIC, BADTICKER] with valid data for VIC, an empty
\* payload for BADTICKER on each of 2 attempts, the run reports success 1, failed 1 and
\* the store holds exactly one row, that of VIC.
C23_RunTotals ==
  [][ /\ pc = "filtered" => (totalSuccess' = 0 /\ totalFailed' = 0)
      /\ BatchReturns =>
           /\ totalSuccess' = totalSuccess + successCount'
           /\ totalFailed' = totalFailed + failedCount'
           /\ successCount' + failedCount' = BatchTo(batchIndex) - BatchFrom(batchIndex)
      /\ (~BatchReturns /\ pc # "filtered") =>
           (totalSuccess' = totalSuccess /\ totalFailed' = totalFailed)
      /\ pc' = "done" => totalSuccess' + totalFailed' = Total'
      /\ BadTickerRun =>
           /\ pc' = "done"
           /\ totalSuccess' = 1
           /\ totalFailed' = 1
           /\ store' = {"VIC"}
    ]_vars

C23_Witness ==
  /\ BadTickerRun
  /\ slots[2].reqs = 2
  /\ slots[2].result.attempts = 2
  /\ slots[2].value = ChunkValue(FALSE, NoDataMsg)
  /\ slots[1].value = ChunkValue(TRUE, "")
  /\ store = {"VIC"}

\* the outcome of one identifier: its last response was a valid payload and upsert did
\* not throw
Succeeded(slot) ==
  /\ slot.lastKind = "ok"
  /\ ~(slot.value.kind = "value" /\ slot.value.error = StoreErrorMsg)

\* the identifiers of the current chunk with the given outcome
WithOutcome(ok) == {i \in SlotIds : Succeeded(slots[i]) = ok}

\* C24: the counts of a chunk, a batch and the run are a function of the outcomes of the
\* identifiers alone: whatever the order in which the fetches and upserts of a chunk
\* complete, the join happens when every outcome is fixed and adds the number of
\* identifiers that succeeded and the number that failed.
C24_OrderIndependentCounts ==
  [][ (pc = "join" /\ pc' # "join") =>
        /\ InFlight = {}
        /\ successCount' = successCount + Cardinality(WithOutcome(TRUE))
        /\ failedCount' = failedCount + Cardinality(WithOutcome(FALSE))
        /\ BatchReturns =>
             /\ totalSuccess' = totalSuccess + successCount + Cardinality(WithOutcome(TRUE))
             /\ totalFailed' = totalFailed + failedCount + Cardinality(WithOutcome(FALSE))
    ]_vars

\* the second promise of the chunk has settled (a failure) while the first one, a
\* success later, is still waiting for its response
C24_Witness ==
  /\ pc = "join"
  /\ Len(slots) = 3
  /\ slots[1].pc = "request"
  /\ slots[2].pc = "settled"
  /\ ~Succeeded(slots[2])
  /\ slots[3].pc = "settled"
  /\ Succeeded(slots[3])
  /\ chunkIndex = 1
  /\ successCount = 2

---------------------------------------------------------------------------
(* Properties of the pipeline's writes *)

\* the upsert call c ends in this step, returning or throwing
Ends(c, how) == calls[c].pc # how /\ calls'[c].pc = how

\* C25: the pipeline never deletes or reverts a row: the tickers of the store never
\* shrink, a row keeps its id and createdAt once written, an upsert that throws leaves
\* the table as it was, and every record whose upsert returned stays in the table with
\* the values of the latest upsert for its ticker that returned.
C25_NeverDeleted ==
  [][ /\ store \subseteq store'
      /\ \A row \in companies :
           \E new \in companies' :
             /\ new.ticker = row.ticker
             /\ new.id = row.id
             /\ new.createdAt = row.createdAt
      /\ \A c \in CallIds :
           /\ Ends(c, "threw") => companies' = companies
           /\ calls'[c].pc = "returned" =>
                \E row \in companies' :
                  /\ row.ticker = calls[c].data.ticker
                  /\ row.ticker \in store'
                  /\ HoldsValues(row, calls'[LastCommitFor(row.ticker)'].data)
    ]_vars

C25_Witness ==
  /\ Len(calls) = 2
  /\ calls[1].pc = "returned"
  /\ calls[2].pc = "threw"
  /\ calls[2].ts > calls[1].ts
  /\ calls[1].data.ticker = calls[2].data.ticker
  /\ calls[1].data # calls[2].data
  /\ companies = {calls[1].row}
  /\ store = {TickerNames[2]}

---------------------------------------------------------------------------
(* Properties of the transformer's dates *)

\* the texts among the inputs that are no calendar date in any layout
NoCalendarDate ==
  {NotADate, NotAvailable, BlankDate, BlankDate \o <<" ">> \o BlankTime}

\* the summary of call c holds a date text that cannot be parsed
Unparseable(c) ==
  \/ summaries[c].analysisUpdated \in NoCalendarDate
  \/ summaries[c].priceTimeStamp \in NoCalendarDate

\* C26: for every raw record whose analysisUpdated or priceTimeStamp text cannot be
\* parsed into a valid calendar date, the transformer leaves that date field absent in
\* the Company, and the following upsert is not rejected because of it: the statement
\* can commit, and when it does the row holds NULL in that column.
C26_UnparseableDatesAbsent ==
  \A c \in 1..Len(summaries) :
    /\ summaries[c].analysisUpdated \in NoCalendarDate =>
         /\ calls[c].data.analysisUpdated = NoDate
         /\ calls[c].pc = "returned" => calls[c].row.analysisUpdated = SqlNull
    /\ summaries[c].priceTimeStamp \in NoCalendarDate =>
         /\ calls[c].data.priceTimestamp = NoDate
         /\ calls[c].pc = "returned" => calls[c].row.priceTimestamp = SqlNull
    /\ (Unparseable(c) /\ calls[c].pc = "query") => ENABLED UpsertQueryOk(c)

\* the instant a Date built from calendar fields shows
Instant(day, time) ==
  [kind |-> "date", zone |-> "local", year |-> day[3], month |-> day[2], day |-> day[1],
   hours |-> time[1], minutes |-> time[2], seconds |-> time[3]]

\* C27: the transformer reads source dates day-first: a priceTimeStamp of layout
\* DD/MM/YYYY HH:mm:ss yields the instant with that day, month, year, hour, minute and
\* second, and an analysisUpdated of layout DD/MM/YYYY yields that calendar date (at
\* midnight); the statement that follows stores them in that order of fields.
C27_DayFirstDates ==
  \A c \in 1..Len(summaries) :
    \A day \in Days :
      /\ summaries[c].analysisUpdated = DateText(day) =>
           calls[c].data.analysisUpdated = Instant(day, <<0, 0, 0>>)
      /\ \A time \in Times :
           summaries[c].priceTimeStamp = DateText(day) \o <<" ">> \o TimeText(time) =>
             calls[c].data.priceTimestamp = Instant(day, time)

\* "05/03/2024 09:30:00" and "05/03/2024" were received and stored as 5 March 2024
C27_Witness ==
  /\ Len(summaries) >= 1
  /\ summaries[1].priceTimeStamp = DateText(<<5, 3, 2024>>) \o <<" ">> \o TimeText(<<9, 30, 0>>)
  /\ summaries[1].analysisUpdated = DateText(<<5, 3, 2024>>)
  /\ calls[1].data.priceTimestamp.month = 3
  /\ calls[1].data.priceTimestamp.day = 5
  /\ calls[1].pc = "returned"
  /\ calls[1].row.priceTimestamp = "2024-03-05 09:30:00"
  /\ calls[1].row.analysisUpdated = "2024-03-05 00:00:00"

---------------------------------------------------------------------------
(* Properties of the company controller *)

RequestIds == 1..Len(requests)

\* the query texts among the inputs that are no integer of the given range
NoPage == {<<"0">>, <<"-", "1">>, <<"1", ".", "5">>, <<"a", "b", "c">>}

NoLimit == {<<"1", "0", "1">>, <<"0">>}

NoSearchLimit == {<<"5", "1">>}

\* the characters of a text without the white space around it, as the schemas read it
Inner(text) ==
  LET first == {i \in 1..Len(text) : text[i] \notin WhiteSpace}
  IN  IF first = {} THEN << >>
      ELSE SubSeq(text, CHOOSE i \in first : \A j \in first : i <= j,
                  CHOOSE i \in first : \A j \in first : i >= j)

\* the parameters of request r violate the schema of its route
Violates(r) ==
  LET route == requests[r].route
      input == requests[r].input
  IN  \/ /\ route = "getAllCompanies"
         /\ input.page \in NoPage \/ input.limit \in NoLimit
      \/ /\ route = "searchCompanies"
         /\ \/ input.q = NoText
            \/ Inner(input.q) = << >>
            \/ Len(Inner(input.q)) > 100
            \/ input.limit \in NoSearchLimit
      \/ /\ route = "getCompanyByTicker"
         /\ \/ Len(Inner(input.ticker)) > 20
            \/ \E i \in 1..Len(Inner(input.ticker)) :
                 Inner(input.ticker)[i] \notin
                   {"0", "1", "2", "3", "4", "5", "6", "7", "8", "9"}
                     \cup {LowerCase[k] : k \in 1..26} \cup {UpperCase[k] : k \in 1..26}

\* C28: on GET /companies, GET /companies/search and GET /companies/:ticker a request
\* whose parameters violate the schema (page below 1 or no integer, limit outside 1..100,
\* or 1..50 on search, q missing, empty or longer than 100 characters, ticker with a
\* character that is no letter or digit or longer than 20 characters; white space around
\* q and ticker is not counted) is answered 400 and no CompanyModel method is called for it.
C28_InvalidRejected ==
  \A r \in RequestIds :
    Violates(r) =>
      /\ requests[r].pc = "responded"
      /\ requests[r].response.status = 400
      /\ requests[r].response.success = FALSE
      /\ requests[r].called = << >>

\* page=0, a search without q, a q of 101 characters and the ticker invalid-ticker! were
\* answered 400
C28_Witness ==
  /\ Len(requests) >= 1
  /\ \/ requests[1].route = "getCompanyByTicker" /\ requests[1].input.ticker = InvalidTicker
     \/ requests[1].route = "getAllCompanies" /\ requests[1].input.page = <<"0">>
  /\ requests[1].response.status = 400
  /\ requests[1].called = << >>

\* the ticker of request r as the model is given it
AskedTicker(r) == Str(ToUpperCase(Inner(requests[r].input.ticker)))

\* C29: GET /companies/:ticker with a well-formed ticker answers 200 with the company
\* when the model finds a row and 404 when the model returns null; it never answers 200
\* without a row, and the row it sends is the one of that ticker, in upper case.
C29_TickerFoundOrNot ==
  \A r \in RequestIds :
    (/\ requests[r].route = "getCompanyByTicker"
     /\ ~Violates(r)
     /\ requests[r].thrown = NoError) =>
      /\ requests[r].pc \in {"model", "responded"}
      /\ requests[r].pc = "responded" =>
           /\ requests[r].response.status \in {200, 404}
           /\ requests[r].response.status = 200 <=>
                \E row \in companies : row.ticker = AskedTicker(r)
           /\ requests[r].response.status = 200 =>
                /\ requests[r].response.success
                /\ requests[r].response.data \in companies
                /\ requests[r].response.data.ticker = AskedTicker(r)
           /\ requests[r].response.status = 404 => ~requests[r].response.success

\* GET /companies/vic was answered 200 with the row of VIC
C29_Witness ==
  /\ Len(requests) >= 1
  /\ requests[1].route = "getCompanyByTicker"
  /\ requests[1].input.ticker = <<"v", "i", "c">>
  /\ requests[1].response.status = 200
  /\ requests[1].response.data.ticker = "VIC"

---------------------------------------------------------------------------
(* Properties of CompanyModel.findByTicker and CompanyModel.findAll *)

\* the upper-case ticker each lookup text stands for
UpperOf(ticker) ==
  IF ticker \in {<<"V", "I", "C">>, <<"v", "i", "c">>} THEN "VIC"
  ELSE IF ticker = <<"V", "c", "b">> THEN "VCB"
  ELSE IF ticker = <<"H", "P", "G">> THEN "HPG"
  ELSE "XXX"

\* C31: findByTicker(t) queries the store with t converted to upper case; when the query
\* resolves it returns the row of that ticker if the table has one and null if it has
\* none, and when the query fails it throws the store's error instead of returning null.
C31_FindByTicker ==
  [][read'.method = "findByTicker" =>
       /\ Len(read'.queries) = 1
       /\ Str(read'.queries[1].values[1]) = UpperOf(read'.args.ticker)
       /\ (read.pc = "query" /\ read'.pc = "returned") =>
            IF \E row \in companies : row.ticker = UpperOf(read.args.ticker)
            THEN read'.result \in companies /\ read'.result.ticker = UpperOf(read.args.ticker)
            ELSE read'.result = NoRow
       /\ (read.pc = "query" /\ read'.pc = "threw") => read'.thrown \in QueryErrors
       /\ read.pc = "query" => read'.pc \in {"query", "returned", "threw"}]_vars

\* findByTicker('vic') returned the row of VIC
C31_Witness ==
  /\ read.method = "findByTicker"
  /\ read.args.ticker = <<"v", "i", "c">>
  /\ read.pc = "returned"
  /\ read.result.ticker = "VIC"
  /\ read.queries[1].values = << <<"V", "I", "C">> >>

\* the rows the filters of a findAll call stand for: search 'vi' is in the ticker VIC and
\* in the names Vingroup and Vietcom, exchange 'hose' is HOSE
MatchingRows(table, params) ==
  {row \in table :
     /\ params.search # NoText => (row.ticker = "VIC" \/ row.nameVi \in {"Vingroup", "Vietcom"})
     /\ params.exchange # NoText => row.stockExchange = "HOSE"}

GivenPage == IF read.args.page = Undefined THEN 1 ELSE read.args.page

GivenLimit == IF read.args.limit = Undefined THEN 20 ELSE read.args.limit

\* C32: findAll returns pagination with the given page and limit (1 and 20 by default),
\* total equal to the count of rows matching the filters when the count query ran, and
\* totalPages = ceil(total / limit); the data query has the WHERE clause and the filter
\* values of the count query, LIMIT limit and OFFSET (page - 1) * limit, and the rows
\* returned are at most limit rows, all matching the filters.
C32_Pagination ==
  [][read.method = "findAll" =>
       /\ (read.pc = "count" /\ read'.pc = "data") =>
            /\ read'.total = Cardinality(MatchingRows(companies, read.args))
            /\ Len(read'.queries) = 2
            /\ read'.queries[2].where = read.queries[1].where
            /\ \A i \in 1..Len(read.queries[1].values) :
                 read'.queries[2].values[i] = read.queries[1].values[i]
            /\ read'.queries[2].limit = Len(read.queries[1].values) + 1
            /\ read'.queries[2].offset = Len(read.queries[1].values) + 2
            /\ read'.queries[2].values[read'.queries[2].limit] = GivenLimit
            /\ read'.queries[2].values[read'.queries[2].offset] = (GivenPage - 1) * GivenLimit
       /\ (read.pc = "data" /\ read'.pc = "returned") =>
            /\ read'.result.pagination =
                 [page |-> GivenPage, limit |-> GivenLimit, total |-> read.total,
                  totalPages |-> CeilDiv(read.total, GivenLimit)]
            /\ Len(read'.result.data) <= GivenLimit
            /\ \A i \in 1..Len(read'.result.data) :
                 read'.result.data[i] \in MatchingRows(companies, read.args)]_vars

\* findAll({ page: 2, limit: 1, search: 'vi' }) returned the second of the two matching rows
C32_Witness ==
  /\ read.method = "findAll"
  /\ read.pc = "returned"
  /\ read.args.page = 2
  /\ read.args.limit = 1
  /\ read.args.search = <<"v", "i">>
  /\ read.result.pagination = [page |-> 2, limit |-> 1, total |-> 2, totalPages |-> 2]
  /\ Len(read.result.data) = 1

\* C40: for every sortBy and sortOrder given to findAll the ORDER BY clause of the data
\* query names a column of the allow-list (the given one when it is in the list, ticker
\* otherwise) and the direction ASC or DESC (DESC only for 'desc'); the rest of the query
\* text is fixed, and the caller's search and exchange texts are only among the bound values.
C40_OrderByAllowList ==
  read.method = "findAll" =>
    \A q \in 1..Len(read.queries) :
      LET query == read.queries[q]
      IN  /\ query.select \in {"COUNT(*)", "*"}
          /\ query.from = "companies"
          /\ \A i \in 1..Len(query.where) :
               /\ query.where[i].op \in {"ILIKE", "="}
               /\ \A k \in 1..Len(query.where[i].columns) :
                    query.where[i].columns[k] \in {"ticker", "name_vi", "name_en", "stock_exchange"}
               /\ query.where[i].param \in 1..Len(query.values)
          /\ q = 1 => query.orderBy = << >>
          /\ q = 2 =>
               /\ query.orderBy[1] \in
                    {"ticker", "name_vi", "market_cap", "price_close", "pct_change", "pe_ratio",
                     "pb_ratio", "roe", "roa", "created_at", "updated_at"}
               /\ query.orderBy[1] =
                    (IF read.args.sortBy \in {"market_cap", "updated_at"} THEN read.args.sortBy
                     ELSE "ticker")
               /\ query.orderBy[2] = (IF read.args.sortOrder = "desc" THEN "DESC" ELSE "ASC")

\* findAll was given the sortBy 'ticker; DROP TABLE companies' and ordered by ticker
C40_Witness ==
  /\ read.method = "findAll"
  /\ read.args.sortBy = "ticker; DROP TABLE companies"
  /\ Len(read.queries) = 2
  /\ read.queries[2].orderBy = <<"ticker", "ASC">>
  /\ read.pc = "returned"

---------------------------------------------------------------------------
(* Properties of the script under every option value and every tickers.json *)

\* C33: whatever the options main() parsed (zero or negative batch size, workers and max
\* retries included) and whatever the ticker list, once every request and every store call
\* is answered run() terminates: it completes or it throws.
C33_RunTerminates == <>(pc \in {"done", "threw"})

\* the slots whose fetchWithRetry call gave up
GaveUp == {i \in SlotIds : slots[i].result.kind = "result" /\ ~slots[i].result.success}

---------------------------------------------------------------------------
(* Properties of the key of the rows the pipeline writes *)

\* the upsert calls that follow a fetch
FetchedIds == 1..Len(asked)

\* C35: the record handed to upsert for the identifier given to fetchWithRetry carries that
\* identifier, in upper case, as its ticker; once the upsert has returned, the table holds
\* a row under that identifier, which findByTicker and the skip-existing check look up.
C35_KeyedByRequested ==
  \A c \in FetchedIds :
    /\ calls[c].data.ticker = ToUpperCaseString(asked[c])
    /\ calls[c].pc = "returned" => FindByTickerRow(Chars(asked[c])) # NoRow

\* the identifiers run() schedules, as a set
Scheduled == {tickersToSync[i] : i \in 1..Len(tickersToSync)}

\* C36: the identifiers of the chunk in progress are pairwise distinct, so no two concurrent
\* fetches or upserts work on the same identifier, and a finished run has made exactly one
\* fetchWithRetry call for each identifier it scheduled.
C36_OneFetchPerIdentifier ==
  /\ \A i, j \in SlotIds : i # j => slots[i].ticker # slots[j].ticker
  /\ pc = "done" => launched = Cardinality(Scheduled)

---------------------------------------------------------------------------
(* Properties of SimplizeService.fetchCompanyData inside fetchWithRetry *)

\* the most recent timer a slot has awaited
LastWait(slot) == slot.waits[Len(slot.waits)]

\* the attempts fetchWithRetry(I, k) makes
AttemptsOf(k) == IF k < 0 THEN 0 ELSE k

\* what the answer to the request of slot s leads to in one step of fetchCompanyData
InnerStep(a, b) ==
  /\ a.pc = "request" =>
       /\ a.inner \in 1..cfgMaxRetries
       /\ b.lastKind = "ok" => b.pc = "connect"
       /\ b.lastKind = "empty" =>
            /\ b.pc \in {"backoff", "settled"}
            /\ b.reqs = a.reqs
            /\ b.lastError = NoDataMsg
       /\ (b.lastKind = "error" /\ a.inner < cfgMaxRetries) =>
            /\ b.pc = "delay"
            /\ LastWait(b) = [timer |-> "delay", ms |-> 1000 * a.inner]
            /\ b.reqs = a.reqs /\ b.lastError = a.lastError
       /\ (b.lastKind = "error" /\ a.inner = cfgMaxRetries) =>
            /\ b.pc \in {"backoff", "settled"}
            /\ b.reqs = a.reqs
            /\ b.lastError = NoDataMsg
  /\ a.pc = "delay" =>
       /\ a.lastKind = "error"
       /\ b.pc = "request" /\ b.inner = a.inner + 1 /\ b.reqs = a.reqs + 1
       /\ b.attempt = a.attempt
  /\ b.reqs <= AttemptsOf(MaxRetries) * cfgMaxRetries

\* C37: one fetchCompanyData call issues at most config.maxRetries requests; it issues
\* another one only after a request error and after a delay of requestDelay * attempt; an
\* answer without pageProps.summary ends the call with null at once; a request error on
\* the last attempt ends it with null too, never with an exception. fetchWithRetry(I, k)
\* therefore issues at most k * config.maxRetries requests for I.
C37_InnerRetries ==
  [][\A s \in 1..Len(slots) :
       (s <= Len(slots') /\ slots[s].pc \in {"request", "delay"} /\ slots'[s] # slots[s]) =>
         InnerStep(slots[s], slots'[s])]_vars

\* two attempts of three requests each, all of them failed: six requests, the delays of
\* 1 s and 2 s inside each attempt, and the identifier given up for lack of data
C37_Witness ==
  \E i \in SlotIds :
    /\ cfgMaxRetries = 3 /\ MaxRetries = 2
    /\ slots[i].pc = "settled"
    /\ slots[i].allEmpty = FALSE /\ slots[i].firstKind = "error" /\ slots[i].lastKind = "error"
    /\ slots[i].reqs = 6
    /\ Len(slots[i].waits) = 5
    /\ slots[i].waits[2] = [timer |-> "delay", ms |-> 2000]
    /\ slots[i].result.error = NoDataMsg

---------------------------------------------------------------------------
(* Properties of the pool and of initializeDatabase *)

\* the call has ended
Ended(call) == call.pc \in {"returned", "threw"}

\* nobody is waiting for a client or working with one
Quiet ==
  /\ upserts.connect = 0 /\ upserts.query = 0
  /\ testConn.pc \in {"idle", "returned"}
  /\ initDb.pc \in {"idle", "returned", "threw"}

\* the client of a call that has ended was released once if the call had checked one out
ReleasedOnce(call) ==
  Ended(call) => /\ call.client # "held"
                 /\ call.releases = IF call.client = "released" THEN 1 ELSE 0

\* C38: every client checked out by upsert, testConnection or initializeDatabase is released
\* exactly once on every path, the path where the query fails included: when all calls have
\* ended no client is checked out, and never more than 20 are.
C38_ClientsReleased ==
  /\ pool <= 20
  /\ upserts.query <= pool
  /\ ReleasedOnce(testConn)
  /\ ReleasedOnce(initDb)
  /\ Quiet => pool = 0

\* the statements between BEGIN and COMMIT
SchemaStatements == {"CREATE TABLE", "CREATE INDEX", "CREATE FUNCTION", "CREATE TRIGGER"}

\* the statement initializeDatabase was awaiting when its catch block was entered
FailedStatement == initDb.issued[Len(initDb.issued) - 1]

\* C39, on the state: COMMIT is sent only as the sixth statement, after BEGIN and the four
\* schema statements in order, each sent after the one before it succeeded; when one of the
\* four failed, ROLLBACK was sent, COMMIT was not, no object of the transaction is in place
\* and the call throws the error of the statement that failed.
AllOrNothing ==
  /\ \A k \in 1..Len(initDb.issued) :
       initDb.issued[k] = "COMMIT" =>
         k = 6 /\ SubSeq(initDb.issued, 1, 6) = InitStatements
  /\ (initDb.pc \in {"rollback", "threw"} /\ initDb.caught # ""
        /\ FailedStatement \in SchemaStatements) =>
       /\ initDb.issued[Len(initDb.issued)] = "ROLLBACK"
       /\ \A k \in 1..Len(initDb.issued) : initDb.issued[k] # "COMMIT"
       /\ initDb.pc = "threw" => (initDb.thrown = initDb.caught /\ initDb.txn = {})
  /\ schema \in {{}, SchemaObjects}

\* C39, on the steps: a call on a store that is initialized already changes neither its
\* rows nor its schema, whether it returns or throws.
RerunKeepsRows ==
  (initDb' # initDb /\ schema = SchemaObjects) => (companies' = companies /\ schema' = schema)

\* C39: initializeDatabase is all-or-nothing, rethrows the error of a failed statement, and
\* can be run again on an initialized store without touching its rows.
C39_InitAllOrNothing == []AllOrNothing /\ [][RerunKeepsRows]_vars

====
